---------------------------- MODULE Spec2Model ----------------------------
(***************************************************************************)
(* A model of the orbital services of Past-Deadline/server:                *)
(*   - OrbitService.exportTle / formatExponential / checksum               *)
(*     (src/src/orbit.service.ts),                                         *)
(*   - CollisionService.checkCollision (src/src/collision.service.ts),     *)
(*   - ScheduleService.checkOrbitIntersection, getOrbitPoints,             *)
(*     generateEllipseFromTLE, calculateInterceptionsForAll and schedule   *)
(*     (src/src/schedule.service.ts),                                      *)
(*   - getKeplerianFromRV (src/src/utils/getKeplerianFromRV.ts).           *)
(*                                                                         *)
(* Conventions.                                                            *)
(*   A JavaScript string is a sequence of one-character strings.           *)
(*   A JavaScript number with decimals is an integer count of a fixed      *)
(*   decimal unit, named at each use (1e-5 degree, 1e-8 day, ...).         *)
(*   A distance d >= 0 (a square root in the code) is carried as its       *)
(*   square d*d; x |-> x*x is strictly increasing on x >= 0, so every      *)
(*   comparison of d with a non-negative bound is the comparison of the    *)
(*   squares.                                                              *)
(*   An optional value (a field that may be undefined) is <<>> or <<v>>.   *)
(***************************************************************************)
EXTENDS Integers, Sequences, FiniteSets, TLC

VARIABLES
    \* ---- OrbitService (TLE export) ----
    satrec,          \* the Satrec handed to exportTle
    classification,  \* the classification argument
    tleOut,          \* <<>> or <<[line1, line2]>>: what exportTle returned
    tlePc,           \* "in" | "done"
    \* ---- CollisionService.checkCollision, one request ----
    dto,             \* the CollisionCheckDto
    pc,              \* position of the handler
    maxEnd,          \* start + TLE_VALID_DAYS days (ms)
    clampedEnd,      \* the window end after the 14-day clamp (ms)
    isBeyond14Days,
    keepTrackSats,   \* the fetched catalog
    keepTrackSatRecs,\* its parseable entries
    t,               \* loop variable of the times loop (ms)
    times,           \* the sample times
    ti,              \* index of the outer comparison loop (1-based)
    si,              \* index of the inner comparison loop (1-based)
    userEciPos,      \* the user position of the current time step
    riskyPoints,
    totalChecks,
    response,        \* <<>> or <<the returned object>>
    error,           \* <<>> or <<the HttpException thrown>>
    csvFile,         \* contents of collision_risk_points.csv (<<>>: never written)
    fetchCalls,      \* history: calls of fetch
    fetched,         \* history: <<>> or <<[ok, isArray]>>, what fetch answered
    propagations,    \* history: calls of satellite.propagate
    csvWrites,       \* history: calls of fs.writeFileSync
    \* ---- probability / risk level of given counters ----
    riskIn,          \* [totalRisky, totalChecks]
    riskOut,         \* <<>> or <<[collisionProbability, riskLevel]>>
    \* ---- ScheduleService.checkOrbitIntersection ----
    orbit1,
    orbit2,
    interceptions,   \* <<>> before the call; <<result>> after it
    orbPc,           \* "in" | "done"
    \* ---- ScheduleService.getOrbitPoints / generateEllipseFromTLE ----
    clock,           \* the system time new Date() reads (ms)
    smpArgs,         \* [tle, startDate, samples]: the arguments of the calls
    smpCalls,        \* the calls made so far: [fn, threw, times, points]
    \* ---- ScheduleService.schedule, one request ----
    schReq,          \* the ScheduleRequirementsDTO
    schPc,           \* "start" | "catalog" | "done" | "failed"
    launches,        \* the launches requestLaunches returned
    filtered,        \* the adequate launches
    pointsOfOrbiting,\* points_of_orbiting: one candidate orbit per adequate launch
    schResponse,     \* <<>> or <<the returned object>>
    schError,        \* <<>> or <<what the call threw>>
    \* ---- getKeplerianFromRV ----
    kepIn,           \* [r, v]: the state vector
    kepOut,          \* <<>> or <<the returned KeplerianElements>>
    \* ---- OrbitService.checksum on its own ----
    chkLine,         \* the line argument
    chkOut,          \* <<>> or <<the returned number>>
    \* ---- AppService.heatmap / AppService.getDebris, one request ----
    catOp,           \* "heatmap" | "getDebris": the operation called
    heatmapDto,      \* the HeatmapDto (<<>> for getDebris)
    catPc,           \* "start" | "fetching" | "done" | "failed"
    catFetched,      \* history: <<>> or <<[ok, isArray]>>, what fetch answered
    catData,         \* the fetched array of satellites
    catPropagations, \* history: calls of satellite.propagate
    catResponse,     \* <<>> or <<the returned object>>
    catError,        \* <<>> or <<the HttpException thrown>>
    \* ---- CollisionService.checkCollision, concurrent requests ----
    requests,        \* request number -> [dto, pc, keepTrackSats, response, error]
    sharedCsv,       \* contents of collision_risk_points.csv (<<>>: never written)
    lastWriter       \* history: the request whose write succeeded last (0: none)

tleVars == <<satrec, classification, tleOut, tlePc>>
colVars == <<dto, pc, maxEnd, clampedEnd, isBeyond14Days, keepTrackSats,
             keepTrackSatRecs, t, times, ti, si, userEciPos, riskyPoints,
             totalChecks, response, error, csvFile, fetchCalls, fetched,
             propagations, csvWrites>>
riskVars == <<riskIn, riskOut>>
orbVars == <<orbit1, orbit2, interceptions, orbPc>>
smpVars == <<clock, smpArgs, smpCalls>>
schVars == <<schReq, schPc, launches, filtered, pointsOfOrbiting, schResponse, schError>>
kepVars == <<kepIn, kepOut>>
chkVars == <<chkLine, chkOut>>
catVars == <<catOp, heatmapDto, catPc, catFetched, catData, catPropagations,
             catResponse, catError>>
conVars == <<requests, sharedCsv, lastWriter>>
lateVars == <<chkVars, catVars, conVars>>
extVars == <<smpVars, schVars, kepVars, lateVars>>
vars == <<tleVars, colVars, riskVars, orbVars, extVars>>

-----------------------------------------------------------------------------
(* JavaScript string and number helpers                                    *)

DigitChars == <<"0", "1", "2", "3", "4", "5", "6", "7", "8", "9">>

DigitChar(d) == DigitChars[d + 1]

IsDigitChar(c) == \E d \in 0..9 : DigitChars[d + 1] = c

\* parseInt(c, 10) of a digit character
DigitValue(c) == CHOOSE d \in 0..9 : DigitChars[d + 1] = c

RECURSIVE Pow10(_)
Pow10(k) == IF k = 0 THEN 1 ELSE 10 * Pow10(k - 1)

Abs(x) == IF x < 0 THEN -x ELSE x

\* floor(a / b) for b > 0 (Math.floor of a quotient)
FloorDiv(a, b) == a \div b

RECURSIVE NatToStr(_)
\* Number.prototype.toString of a non-negative integer
NatToStr(n) ==
    IF n < 10 THEN <<DigitChar(n)>>
    ELSE NatToStr(n \div 10) \o <<DigitChar(n % 10)>>

RECURSIVE Repeat(_, _)
Repeat(c, n) == IF n <= 0 THEN <<>> ELSE <<c>> \o Repeat(c, n - 1)

\* String.prototype.padStart(n, c), c one character
PadStart(s, n, c) == Repeat(c, n - Len(s)) \o s

\* String.prototype.padEnd(n, c), c one character
PadEnd(s, n, c) == s \o Repeat(c, n - Len(s))

Min(a, b) == IF a <= b THEN a ELSE b

\* String.prototype.slice(from, to) for 0 <= from <= to (0-based, to excluded)
Slice(s, from, to) == SubSeq(s, from + 1, Min(to, Len(s)))

\* String.prototype.replace('.', ''): drops the first '.'
RECURSIVE DropFirstDot(_)
DropFirstDot(s) ==
    IF s = <<>> THEN <<>>
    ELSE IF Head(s) = "." THEN Tail(s)
    ELSE <<Head(s)>> \o DropFirstDot(Tail(s))

\* Number.prototype.toFixed(d) of the number n * 10^-k (n an integer, d <= k):
\* the magnitude rounded half up to d decimals, a '-' for a negative number.
ToFixed(n, k, d) ==
    LET a == Abs(n)
        r == IF k = d THEN a
             ELSE (a + 5 * Pow10(k - d - 1)) \div Pow10(k - d)
    IN  (IF n < 0 THEN <<"-">> ELSE <<>>)
        \o NatToStr(r \div Pow10(d)) \o <<".">>
        \o PadStart(NatToStr(r % Pow10(d)), d, "0")

-----------------------------------------------------------------------------
(* OrbitService: formatExponential, checksum, exportTle                    *)
(*                                                                         *)
(* A Satrec is a record                                                    *)
(*   satnum    : a natural number (0: unset)                               *)
(*   epoch     : [d, f8], the Julian date 2451544.5 + d + f8 * 1e-8, i.e.  *)
(*               d whole days and a day fraction after 2000-01-01T00:00Z   *)
(*   epochyr   : optional natural number                                   *)
(*   epochdays : optional [day, f8], the number day + f8 * 1e-8            *)
(*   bstar     : [neg, m, e], the number (+/-) m * 1e-5 * 10^e with m = 0  *)
(*               or 100000 <= m <= 999999 (six significant digits)         *)
(*   inclo, nodeo, argpo, mo : the angle, as the value of                  *)
(*               (x * 180) / Math.PI in units of 1e-5 degree               *)
(*   ecco      : the decimals of the eccentricity 0.d1d2...dn, without     *)
(*               trailing zeros (<<>> is 0)                                *)
(*   no        : the value of (no * 1440) / (2 * Math.PI) in units of      *)
(*               1e-8 rev/day                                              *)

\* Number.prototype.toExponential(5) of a bstar-shaped number
ToExponential5(value) ==
    LET ds == PadStart(NatToStr(value.m), 6, "0")
    IN  (IF value.neg /\ value.m # 0 THEN <<"-">> ELSE <<>>)
        \o <<ds[1], ".">> \o SubSeq(ds, 2, 6)
        \o <<"e", IF value.e >= 0 THEN "+" ELSE "-">> \o NatToStr(Abs(value.e))

\* orbit.service.ts formatExponential: the groups of the regular expression
\* /^(-?)(\d\.\d+)[eE]([+-]\d+)$/ on the toExponential(5) text are its sign,
\* its seven mantissa characters and its exponent.
formatExponential(value) ==
    LET scientific == ToExponential5(value)
        mantissaSign == IF Head(scientific) = "-" THEN <<"-">> ELSE <<>>
        mantissa == SubSeq(scientific, Len(mantissaSign) + 1, Len(mantissaSign) + 7)
        exponent == value.e
        signChar == IF mantissaSign = <<"-">> THEN "-" ELSE " "
        mantissaDigits == PadEnd(Slice(DropFirstDot(mantissa), 0, 5), 5, "0")
        exponentSign == IF exponent >= 0 THEN "+" ELSE "-"
        exponentStr == PadStart(NatToStr(Abs(exponent)), 1, "0")
    IN  <<signChar, ".">> \o mantissaDigits \o <<exponentSign>> \o exponentStr

\* orbit.service.ts checksum, the loop body: what character c adds to sum
checksumAddSigns(c) ==
    IF IsDigitChar(c) THEN DigitValue(c)
    ELSE IF c = "-" \/ c = "+" THEN 1
    ELSE 0

checksumAdd(c) ==
    IF IsDigitChar(c) THEN DigitValue(c)
    ELSE IF c = "-" THEN 1
    ELSE 0

\* the loop for (i = 0; i < line.length; i++) sum += ..., over line[lo..hi];
\* the additions are grouped by halves to keep the evaluation shallow
RECURSIVE checksumSum(_, _, _)
checksumSum(line, lo, hi) ==
    IF lo > hi THEN 0
    ELSE IF lo = hi THEN checksumAdd(line[lo])
    ELSE LET mid == (lo + hi) \div 2
         IN  checksumSum(line, lo, mid) + checksumSum(line, mid + 1, hi)

\* orbit.service.ts checksum
checksum(line) == checksumSum(line, 1, Len(line)) % 10

\* Number.prototype.toString of the eccentricity 0.d1...dn (0 <= e < 1):
\* decimal notation from 1e-6 up, exponent notation below.
RECURSIVE LeadingZeros(_)
LeadingZeros(ds) ==
    IF ds = <<>> \/ Head(ds) # 0 THEN 0 ELSE 1 + LeadingZeros(Tail(ds))

DigitsToStr(ds) == [i \in 1..Len(ds) |-> DigitChar(ds[i])]

EccoToString(ecco) ==
    LET z == LeadingZeros(ecco)
        sig == SubSeq(ecco, z + 1, Len(ecco))
    IN  IF ecco = <<>> THEN <<"0">>
        ELSE IF z < 6 THEN <<"0", ".">> \o DigitsToStr(ecco)
        ELSE <<DigitChar(sig[1])>>
             \o (IF Len(sig) > 1 THEN <<".">> \o DigitsToStr(Tail(sig)) ELSE <<>>)
             \o <<"e", "-">> \o NatToStr(z + 1)

\* Date.UTC(year, 0, 1) / 86400000 + 2440587.5, as whole days after
\* 2000-01-01T00:00Z (years 1999..2099)
YearStartDay(year) == 365 * (year - 2000) + FloorDiv(year - 2000 + 3, 4)

\* exportTle, lines 114-131: the epoch year and the day of the year
EpochFields(sr) ==
    LET given == /\ sr.epochyr # <<>> /\ sr.epochyr[1] # 0
                 /\ sr.epochdays # <<>>
                 /\ ~(sr.epochdays[1].day = 0 /\ sr.epochdays[1].f8 = 0)
        \* Math.floor((epoch - 2451545.0) / 365.25)
        \*   = floor((4 d + 4 f - 2) / 1461), f the day fraction
        approximateYear ==
            2000 + FloorDiv(4 * sr.epoch.d - 2 + (4 * sr.epoch.f8) \div Pow10(8), 1461)
    IN  IF given
        THEN [epochYear |-> sr.epochyr[1], epochDays |-> sr.epochdays[1]]
        ELSE [epochYear |-> approximateYear % 100,
              epochDays |-> [day |-> sr.epoch.d - YearStartDay(approximateYear) + 1,
                             f8 |-> sr.epoch.f8]]

\* (dayOfYear + fractionOfDay).toFixed(8)
DaysToFixed8(epochDays) ==
    NatToStr(epochDays.day) \o <<".">> \o PadStart(NatToStr(epochDays.f8), 8, "0")

Line1Of(sr, cls) ==
    LET satNum == Abs(IF sr.satnum = 0 THEN 99999 ELSE sr.satnum)
        ef == EpochFields(sr)
        dayFractionString == PadStart(DaysToFixed8(ef.epochDays), 11, "0")
        bstarString == formatExponential(sr.bstar)
        line1SatNum == PadStart(NatToStr(satNum), 5, "0")
        line1EpochYear == PadStart(NatToStr(ef.epochYear), 2, "0")
        ndotStr == DropFirstDot(formatExponential([neg |-> FALSE, m |-> 0, e |-> 0]))
        nddotStr == <<"0", " ", "0", "0", "0", "0", "0", "-", "0">>
    IN  <<"1", " ">> \o line1SatNum \o cls \o <<" ">>
        \o line1EpochYear \o dayFractionString \o <<" ">>
        \o ndotStr \o <<" ">>
        \o nddotStr \o <<" ">>
        \o bstarString \o <<" ">>
        \o <<"0", " ", " ", "9", "9", "9", "9">>

Line2Of(sr) ==
    LET satNum == Abs(IF sr.satnum = 0 THEN 99999 ELSE sr.satnum)
        line1SatNum == PadStart(NatToStr(satNum), 5, "0")
        eccoStr == PadEnd(Slice(EccoToString(sr.ecco), 2, 2 + 7), 7, "0")
        nStr == ToFixed(sr.no, 8, 8)
        revNumAtEpoch == 1
    IN  <<"2", " ">> \o line1SatNum \o <<" ">>
        \o PadStart(ToFixed(sr.inclo, 5, 4), 8, " ") \o <<" ">>
        \o PadStart(ToFixed(sr.nodeo, 5, 4), 8, " ") \o <<" ">>
        \o eccoStr \o <<" ">>
        \o PadStart(ToFixed(sr.argpo, 5, 4), 8, " ") \o <<" ">>
        \o PadStart(ToFixed(sr.mo, 5, 4), 8, " ") \o <<" ">>
        \o PadStart(nStr, 11, " ") \o PadStart(NatToStr(revNumAtEpoch), 5, " ")

\* orbit.service.ts exportTle
exportTle(sr, cls) ==
    LET line1 == Line1Of(sr, cls)
        line2 == Line2Of(sr)
    IN  [line1 |-> line1 \o NatToStr(checksum(line1)),
         line2 |-> line2 \o NatToStr(checksum(line2))]

-----------------------------------------------------------------------------
(* Values of a run that does not use a component                           *)

TleIdle ==
    /\ satrec = <<>> /\ classification = <<>> /\ tleOut = <<>> /\ tlePc = "idle"

ColIdle ==
    /\ dto = <<>> /\ pc = "idle" /\ maxEnd = 0 /\ clampedEnd = 0
    /\ isBeyond14Days = FALSE /\ keepTrackSats = <<>> /\ keepTrackSatRecs = <<>>
    /\ t = 0 /\ times = <<>> /\ ti = 0 /\ si = 0 /\ userEciPos = <<>>
    /\ riskyPoints = <<>> /\ totalChecks = 0 /\ response = <<>> /\ error = <<>>
    /\ csvFile = <<>> /\ fetchCalls = 0 /\ fetched = <<>>
    /\ propagations = 0 /\ csvWrites = 0

RiskIdle == riskIn = <<>> /\ riskOut = <<>>

OrbIdle ==
    /\ orbit1 = <<>> /\ orbit2 = <<>> /\ interceptions = <<>> /\ orbPc = "idle"

SmpIdle == clock = 0 /\ smpArgs = <<>> /\ smpCalls = <<>>

SchIdle ==
    /\ schReq = <<>> /\ schPc = "idle" /\ launches = <<>> /\ filtered = <<>>
    /\ pointsOfOrbiting = <<>> /\ schResponse = <<>> /\ schError = <<>>

KepIdle == kepIn = <<>> /\ kepOut = <<>>

ChkIdle == chkLine = <<>> /\ chkOut = <<>>

CatIdle ==
    /\ catOp = "idle" /\ heatmapDto = <<>> /\ catPc = "idle" /\ catFetched = <<>>
    /\ catData = <<>> /\ catPropagations = 0 /\ catResponse = <<>> /\ catError = <<>>

ConIdle == requests = <<>> /\ sharedCsv = <<>> /\ lastWriter = 0

LateIdle == ChkIdle /\ CatIdle /\ ConIdle

ExtIdle == SmpIdle /\ SchIdle /\ KepIdle /\ LateIdle

-----------------------------------------------------------------------------
(* Specification SpecTle: generateTleFromState / exportTle on element sets *)

EpochSet ==
    [d : {0, 59, 365, 1096, 9500}, f8 : {0, 54513889, 75000000}]

BstarSet ==
    {[neg |-> FALSE, m |-> 0, e |-> 0],
     [neg |-> FALSE, m |-> 102700, e |-> -4],
     [neg |-> TRUE, m |-> 123456, e |-> -5]}

SatrecSet ==
    [satnum : {0, 5, 25544},
     epoch : EpochSet,
     epochyr : {<<>>, <<21>>},
     epochdays : {<<>>, <<[day |-> 60, f8 |-> 54513889]>>,
                  <<[day |-> 160, f8 |-> 0]>>},
     bstar : BstarSet,
     inclo : {0, 5164485},
     nodeo : {24260000, 35999995},
     ecco : {<<>>, <<0, 0, 0, 7>>, <<0, 0, 0, 0, 0, 0, 1>>,
             <<1, 2, 3, 4, 5, 6, 7, 8, 9, 1>>},
     argpo : {5350000},
     mo : {30660000},
     no : {100273790, 1548961739}]

TleInit ==
    /\ satrec \in SatrecSet
    /\ classification = <<"U">>
    /\ tleOut = <<>>
    /\ tlePc = "in"
    /\ ColIdle /\ RiskIdle /\ OrbIdle /\ ExtIdle

\* generateTleFromState: sgp4init(72, 'i', satNum, jd, 0.0, 0.0, 0.0, r, v)
\* leaves a Satrec with bstar 0, which exportTle formats.
GenerateTleFromState ==
    /\ tlePc = "in"
    /\ satrec.bstar.m = 0
    /\ tleOut' = <<exportTle(satrec, classification)>>
    /\ tlePc' = "done"
    /\ UNCHANGED <<satrec, classification, colVars, riskVars, orbVars, extVars>>

\* exportTle on a Satrec that carries a drag term
ExportTle ==
    /\ tlePc = "in"
    /\ satrec.bstar.m # 0
    /\ tleOut' = <<exportTle(satrec, classification)>>
    /\ tlePc' = "done"
    /\ UNCHANGED <<satrec, classification, colVars, riskVars, orbVars, extVars>>

TleNext == GenerateTleFromState \/ ExportTle

SpecTle == TleInit /\ [][TleNext]_vars

\* C1: both lines returned by generateTleFromState/exportTle, checksum digit
\* included, are exactly 69 characters long.
TleLinesAre69 ==
    tlePc = "done" =>
        /\ Len(tleOut[1].line1) = 69
        /\ Len(tleOut[1].line2) = 69

\* C2: in every returned line the checksum recomputed over the first 68
\* characters is the digit found as the 69th character.
TleChecksumAt69 ==
    tlePc = "done" =>
        \A line \in {tleOut[1].line1, tleOut[1].line2} :
            /\ Len(line) >= 69
            /\ DigitChar(checksum(SubSeq(line, 1, 68))) = line[69]

\* C20: the eccentricity field of line 2 (columns 27-33) is seven decimal
\* digits, the first seven decimals of the eccentricity, zeros where it has
\* fewer.
EccentricityFieldIsSevenDecimals ==
    tlePc = "done" =>
        LET line2 == tleOut[1].line2
            field == SubSeq(line2, 27, 33)
            decimals == SubSeq(satrec.ecco, 1, Min(7, Len(satrec.ecco)))
        IN  /\ Len(field) = 7
            /\ line2[26] = " " /\ line2[34] = " "
            /\ \A i \in 1..7 : IsDigitChar(field[i])
            /\ field = PadEnd(DigitsToStr(decimals), 7, "0")

\* the digits s[from..to] read as a decimal number
RECURSIVE DigitsValue(_, _, _)
DigitsValue(s, from, to) ==
    IF from > to THEN 0
    ELSE 10 * DigitsValue(s, from, to - 1) + DigitValue(s[to])

\* the text sign '.' mmmmm sign e read as (+/-) 0.mmmmm * 10^(+/-e), i.e. as
\* the number (+/-) m * 1e-5 * 10^e with m = mmmmm
ReadExponential(s) ==
    [neg |-> s[1] = "-",
     m |-> DigitsValue(s, 3, 7),
     e |-> (IF s[8] = "-" THEN -1 ELSE 1) * DigitValue(s[9])]

\* C21: formatExponential(value) is sign, '.', five digits, exponent sign,
\* exponent digit, and read back as 0.mmmmm * 10^(+/-e) it is value to five
\* significant digits (value = m6 * 1e-5 * 10^E with six digits m6 is
\* m5 * 1e-5 * 10^(E + 1) with m5 the first five of them, cut or rounded).
FormatExponentialReadsBack ==
    tlePc = "done" =>
        LET value == satrec.bstar
            s == formatExponential(value)
            back == ReadExponential(s)
        IN  /\ Len(s) = 9
            /\ s[1] \in {" ", "-"} /\ s[2] = "."
            /\ \A i \in 3..7 : IsDigitChar(s[i])
            /\ s[8] \in {"+", "-"} /\ IsDigitChar(s[9])
            /\ IF value.m = 0 THEN back.m = 0
               ELSE /\ back.neg = value.neg
                    /\ back.m \in {value.m \div 10, (value.m + 5) \div 10}
                    /\ back.e = value.e + 1

\* the calendar year (2000..2100) of the day d whole days after 2000-01-01
CalendarYear(d) ==
    CHOOSE y \in 1999..2100 : YearStartDay(y) <= d /\ d < YearStartDay(y + 1)

\* C25: when exportTle derives the epoch from the Julian date, the two-digit
\* year is the UTC calendar year of the epoch mod 100, and the day of the
\* year lies in [1, 367) and is the day of that year the epoch falls on.
FallbackEpochNamesUtcDay ==
    (tlePc = "done" /\ (satrec.epochyr = <<>> \/ satrec.epochdays = <<>>)) =>
        LET ef == EpochFields(satrec)
            year == CalendarYear(satrec.epoch.d)
        IN  /\ ef.epochYear = year % 100
            /\ ef.epochDays.day >= 1 /\ ef.epochDays.day < 367
            /\ ef.epochDays.day = satrec.epoch.d - YearStartDay(year) + 1
            /\ ef.epochDays.f8 = satrec.epoch.f8

-----------------------------------------------------------------------------
(* Specification SpecChecksum: checksum on arbitrary short strings         *)

\* the longest line that is explored
MaxLineLen == 3

\* the sequences over S of length at most n
RECURSIVE SeqsOf(_, _)
SeqsOf(S, n) ==
    IF n = 0 THEN {<<>>}
    ELSE LET shorter == SeqsOf(S, n - 1)
         IN  shorter \cup {Append(q, x) : q \in shorter, x \in S}

LineChars == {"0", "7", "9", "-", "+", ".", " ", "U"}

ChecksumInit ==
    /\ chkLine \in SeqsOf(LineChars, MaxLineLen)
    /\ chkOut = <<>>
    /\ TleIdle /\ ColIdle /\ RiskIdle /\ OrbIdle
    /\ SmpIdle /\ SchIdle /\ KepIdle /\ CatIdle /\ ConIdle

\* orbit.service.ts checksum(line)
Checksum ==
    /\ chkOut = <<>>
    /\ chkOut' = <<checksum(chkLine)>>
    /\ UNCHANGED <<chkLine, tleVars, colVars, riskVars, orbVars, smpVars,
                   schVars, kepVars, catVars, conVars>>

SpecChecksum == ChecksumInit /\ [][Checksum]_vars

\* how often the character c occurs in line
Occurrences(line, c) == Cardinality({i \in 1..Len(line) : line[i] = c})

\* the digits of line added up: each digit d, as often as it occurs
RECURSIVE DigitTotal(_, _)
DigitTotal(line, d) ==
    IF d = 0 THEN 0
    ELSE d * Occurrences(line, DigitChar(d)) + DigitTotal(line, d - 1)

\* C22: checksum(line) is (sum of the digit characters' values + number of
\* '-' characters) mod 10; every other character adds 0 (the line without
\* them has the same checksum); the result is an integer in 0..9.
ChecksumIsDigitsPlusMinusSigns ==
    chkOut # <<>> =>
        LET onlyCounted ==
                SelectSeq(chkLine, LAMBDA c : IsDigitChar(c) \/ c = "-")
        IN  /\ chkOut[1] = (DigitTotal(chkLine, 9) + Occurrences(chkLine, "-")) % 10
            /\ chkOut[1] = checksum(onlyCounted)
            /\ chkOut[1] \in 0..9

\* a line with a digit, a '-' and a '+' whose checksum was taken
MixedLineSummed ==
    /\ chkOut = <<8>>
    /\ chkLine = <<"7", "-", "+">>

-----------------------------------------------------------------------------
(* CollisionService.checkCollision                                         *)
(*                                                                         *)
(* Times are milliseconds (Date.getTime()).  A TLE (the pair tle1, tle2)   *)
(* is an identifier; twoline2satrec and propagate are the satellite.js     *)
(* capabilities, deterministic functions of the TLE and the time.          *)

TLE_VALID_DAYS == 14

MsPerDay == 86400000

MsPerMinute == 60000

DefaultIntervalMinutes == 10

DefaultThresholdKm == 1

HighProbability == 5

ModerateProbability == 1

\* the longest list of sample times and the longest catalog that are explored
MaxTimes == 3

MaxCatalog == 2

\* satellite.twoline2satrec: throws on an unparseable TLE
TleParses(tle) == tle # "BAD"

\* the sample slot of a time: which tenth minute of a cycle of five
Slot(time) == (time \div 600000) % 5

\* satellite.propagate(satrec, time).position: <<>> when the object cannot be
\* propagated to that time, else <<position>>.
\*   U  the user satellite, at the origin of the frame used here
\*   UD the same, unpropagatable in slot 1
\*   A  always 1 km from U
\*   B  at U's position in slot 2, 5 km away otherwise
\*   D  propagatable only in slot 3, 2 km from U
Propagate(tle, time) ==
    CASE tle = "U" -> << <<0, 0, 0>> >>
      [] tle = "UD" -> IF Slot(time) = 1 THEN <<>> ELSE << <<0, 0, 0>> >>
      [] tle = "A" -> << <<1, 0, 0>> >>
      [] tle = "B" -> IF Slot(time) = 2 THEN << <<0, 0, 0>> >> ELSE << <<3, 4, 0>> >>
      [] tle = "D" -> IF Slot(time) = 3 THEN << <<0, 0, 2>> >> ELSE <<>>

\* eciDistance, squared
eciDistanceSq(posA, posB) ==
    LET dx == posA[1] - posB[1]
        dy == posA[2] - posB[2]
        dz == posA[3] - posB[3]
    IN  dx * dx + dy * dy + dz * dz

\* distKm <= thresholdKm, distKm >= 0 given by its square
WithinThresholdStrict(distSq, thresholdKm) ==
    thresholdKm > 0 /\ distSq < thresholdKm * thresholdKm

WithinThreshold(distSq, thresholdKm) ==
    thresholdKm >= 0 /\ distSq <= thresholdKm * thresholdKm

\* Date.prototype.toISOString: the text of a time to the millisecond
toIsoString(date) == [iso |-> date]

\* the destructuring defaults of lines 102-109
IntervalMinutesOf(d) ==
    IF d.intervalMinutes = <<>> THEN DefaultIntervalMinutes ELSE d.intervalMinutes[1]

ThresholdKmOf(d) ==
    IF d.thresholdKm = <<>> THEN DefaultThresholdKm ELSE d.thresholdKm[1]

StepMillisOf(d) == IntervalMinutesOf(d) * MsPerMinute

\* line 122: end <= start
TimeWindowInvalidStrict(start, end) == end < start

TimeWindowInvalid(start, end) == end <= start

\* line 130
MaxEndOf(start) == start + TLE_VALID_DAYS * MsPerDay

\* line 133: end.getTime() > maxEnd.getTime()
BeyondValidityInclusive(end, limit) == end >= limit

BeyondValidity(end, limit) == end > limit

\* line 250: validUntil
ValidUntilClamped(limit, clamped) == toIsoString(clamped)

ValidUntilOf(limit, clamped) == toIsoString(limit)

\* lines 238-239 and 271: +collisionProbability.toFixed(3), in units of
\* 0.001 per cent: (totalRisky / totalChecks) * 100 rounded to 3 decimals
ReportedProbability(totalRisky, checks) ==
    IF checks = 0 THEN 0
    ELSE (2 * 100000 * totalRisky + checks) \div (2 * checks)

\* lines 242-247, on collisionProbability = (totalRisky / totalChecks) * 100
RiskLevelOf(totalRisky, checks) ==
    IF checks # 0 /\ 100 * totalRisky >= HighProbability * checks THEN "high"
    ELSE IF checks # 0 /\ 100 * totalRisky >= ModerateProbability * checks
         THEN "moderate"
    ELSE "low"

\* line 212: totalChecks++ on every valid pair
ChecksAfterUncounted(checks, risky) == checks

ChecksAfterOnlySafe(checks, risky) == IF risky THEN checks ELSE checks + 1

ChecksAfter(checks, risky) == checks + 1

ClampNotice ==
    "Predictions beyond 14 days are unreliable. Results were clamped to 14 days."

HttpException(message, status) == [message |-> message, status |-> status]

\* ---- inputs ----

UserTles == {"U", "UD", "BAD"}

StartTimes == {0, 60000}

EndOffsets ==
    {-60000, 0, 20 * MsPerMinute, TLE_VALID_DAYS * MsPerDay,
     TLE_VALID_DAYS * MsPerDay + 1, 20 * MsPerDay}

IntervalOptions == {<<>>, <<0>>, <<-10>>, <<10080>>}

ThresholdOptions == {<<>>, <<0>>, <<-1>>, <<5>>}

CatalogEntries ==
    {[name |-> "A", tle |-> "A"], [name |-> "B", tle |-> "B"],
     [name |-> "D", tle |-> "D"], [name |-> "X", tle |-> "BAD"]}

RECURSIVE SeqsUpTo(_, _)
SeqsUpTo(S, n) ==
    IF n = 0 THEN {<<>>}
    ELSE LET shorter == SeqsUpTo(S, n - 1)
         IN  shorter \cup {Append(q, x) : q \in shorter, x \in S}

\* what the KeepTrack request can answer: a status that is not OK, a body that
\* is no array, or an array of satellites
FetchResults ==
    {[ok |-> FALSE, isArray |-> FALSE, data |-> <<>>],
     [ok |-> TRUE, isArray |-> FALSE, data |-> <<>>]}
    \cup {[ok |-> TRUE, isArray |-> TRUE, data |-> c] :
              c \in SeqsUpTo(CatalogEntries, MaxCatalog)}

\* a positive step visits at most MaxTimes sample times
FitsMaxTimes(d) ==
    StepMillisOf(d) > 0 /\ d.endTime > d.startTime =>
        (Min(d.endTime, MaxEndOf(d.startTime)) - d.startTime) \div StepMillisOf(d)
            < MaxTimes

ColInit ==
    /\ dto \in {d \in [tle : UserTles, startTime : StartTimes,
                       endTime : {s + o : s \in StartTimes, o \in EndOffsets},
                       intervalMinutes : IntervalOptions,
                       thresholdKm : ThresholdOptions] :
                    /\ d.endTime - d.startTime \in EndOffsets
                    /\ FitsMaxTimes(d)}
    /\ pc = "start"
    /\ maxEnd = 0 /\ clampedEnd = 0 /\ isBeyond14Days = FALSE
    /\ keepTrackSats = <<>> /\ keepTrackSatRecs = <<>>
    /\ t = 0 /\ times = <<>> /\ ti = 0 /\ si = 0 /\ userEciPos = <<>>
    /\ riskyPoints = <<>> /\ totalChecks = 0
    /\ response = <<>> /\ error = <<>> /\ csvFile = <<>>
    /\ fetchCalls = 0 /\ fetched = <<>> /\ propagations = 0 /\ csvWrites = 0

colRest == <<tleVars, riskVars, orbVars, extVars>>

\* lines 111-141: validate the TLE and the window, clamp, issue the fetch
ValidateRequest ==
    /\ pc = "start"
    /\ IF ~TleParses(dto.tle)
       THEN /\ error' = <<HttpException("Invalid TLE data provided.", "BAD_REQUEST")>>
            /\ pc' = "rejected"
            /\ UNCHANGED <<maxEnd, clampedEnd, isBeyond14Days, fetchCalls>>
       ELSE IF TimeWindowInvalid(dto.startTime, dto.endTime)
       THEN /\ error' = <<HttpException("endTime must be strictly after startTime",
                                        "BAD_REQUEST")>>
            /\ pc' = "rejected"
            /\ UNCHANGED <<maxEnd, clampedEnd, isBeyond14Days, fetchCalls>>
       ELSE /\ maxEnd' = MaxEndOf(dto.startTime)
            /\ isBeyond14Days' = BeyondValidity(dto.endTime, MaxEndOf(dto.startTime))
            /\ clampedEnd' = IF BeyondValidity(dto.endTime, MaxEndOf(dto.startTime))
                             THEN MaxEndOf(dto.startTime) ELSE dto.endTime
            /\ fetchCalls' = fetchCalls + 1
            /\ pc' = "fetching"
            /\ UNCHANGED error
    /\ UNCHANGED <<dto, keepTrackSats, keepTrackSatRecs, t, times, ti, si,
                   userEciPos, riskyPoints, totalChecks, response, csvFile,
                   fetched, propagations, csvWrites, colRest>>

\* lines 142-151: what the try block throws on the answer res of the fetch
\* (<<>>: nothing)
CatalogFailure(res) ==
    IF ~res.ok
    THEN <<HttpException("Failed to fetch from KeepTrack", "BAD_REQUEST")>>
    ELSE IF ~res.isArray
    THEN <<HttpException("Expected an array of satellites.", "BAD_REQUEST")>>
    ELSE <<>>

\* lines 153-158: the catch block; the new message is 'Error fetching
\* KeepTrack: ' followed by err.message
Rethrown(err) == err

Rewrapped(err) == HttpException("Error fetching KeepTrack", "INTERNAL_SERVER_ERROR")

\* lines 141-173: the fetch answers; the catalog is parsed and filtered
FetchReturns ==
    /\ pc = "fetching"
    /\ \E res \in FetchResults :
          /\ fetched' = <<[ok |-> res.ok, isArray |-> res.isArray]>>
          /\ IF CatalogFailure(res) # <<>>
             THEN /\ error' = <<Rewrapped(CatalogFailure(res)[1])>>
                  /\ pc' = "rejected"
                  /\ UNCHANGED <<keepTrackSats, keepTrackSatRecs, t, times,
                                 riskyPoints, totalChecks>>
             ELSE /\ keepTrackSats' = res.data
                  /\ keepTrackSatRecs' =
                         SelectSeq(res.data, LAMBDA sat : TleParses(sat.tle))
                  /\ t' = dto.startTime
                  /\ times' = <<>>
                  /\ riskyPoints' = <<>>
                  /\ totalChecks' = 0
                  /\ pc' = "times"
                  /\ UNCHANGED error
    /\ UNCHANGED <<dto, maxEnd, clampedEnd, isBeyond14Days, ti, si, userEciPos,
                   response, csvFile, fetchCalls, propagations, csvWrites, colRest>>

\* line 178, the loop condition t <= clampedEnd.getTime()
TimesLoopContinuesStrict(time, end) == time < end

TimesLoopContinues(time, end) == time <= end

\* lines 178-180, one iteration: t <= clampedEnd, push, t += stepMillis
TimesPush ==
    /\ pc = "times"
    /\ TimesLoopContinues(t, clampedEnd)
    /\ Len(times) < MaxTimes
    /\ times' = Append(times, t)
    /\ t' = t + StepMillisOf(dto)
    /\ UNCHANGED <<dto, pc, maxEnd, clampedEnd, isBeyond14Days, keepTrackSats,
                   keepTrackSatRecs, ti, si, userEciPos, riskyPoints, totalChecks,
                   response, error, csvFile, fetchCalls, fetched, propagations, csvWrites,
                   colRest>>

\* line 178: the loop condition fails
TimesExit ==
    /\ pc = "times"
    /\ ~TimesLoopContinues(t, clampedEnd)
    /\ ti' = 1
    /\ pc' = "outer"
    /\ UNCHANGED <<dto, maxEnd, clampedEnd, isBeyond14Days, keepTrackSats,
                   keepTrackSatRecs, t, times, si, userEciPos, riskyPoints,
                   totalChecks, response, error, csvFile, fetchCalls, fetched,
                   propagations, csvWrites, colRest>>

\* lines 197-203: the next time step, the user satellite propagated to it
OuterStep ==
    /\ pc = "outer"
    /\ ti <= Len(times)
    /\ propagations' = propagations + 1
    /\ LET userPos == Propagate(dto.tle, times[ti])
       IN  IF userPos = <<>>
           THEN /\ ti' = ti + 1
                /\ UNCHANGED <<pc, si, userEciPos>>
           ELSE /\ userEciPos' = userPos
                /\ si' = 1
                /\ pc' = "inner"
                /\ UNCHANGED ti
    /\ UNCHANGED <<dto, maxEnd, clampedEnd, isBeyond14Days, keepTrackSats,
                   keepTrackSatRecs, t, times, riskyPoints, totalChecks, response,
                   error, csvFile, fetchCalls, fetched, csvWrites, colRest>>

\* line 207: the time the catalog object is propagated to (the loop variable of
\* line 197)
CatalogSampleTimeFirst(sampleTimes, i) == sampleTimes[1]

CatalogSampleTime(sampleTimes, i) == sampleTimes[i]

\* lines 206-233: one catalog object at the current time step
InnerStep ==
    /\ pc = "inner"
    /\ si <= Len(keepTrackSatRecs)
    /\ propagations' = propagations + 1
    /\ si' = si + 1
    /\ LET keepSat == keepTrackSatRecs[si]
           time == times[ti]
           pos == Propagate(keepSat.tle, CatalogSampleTime(times, ti))
       IN  IF pos = <<>>
           THEN UNCHANGED <<totalChecks, riskyPoints>>
           ELSE LET distSq == eciDistanceSq(userEciPos[1], pos[1])
                    risky == WithinThreshold(distSq, ThresholdKmOf(dto))
                IN  /\ totalChecks' = ChecksAfter(totalChecks, risky)
                    /\ riskyPoints' =
                           IF risky
                           THEN Append(riskyPoints,
                                    [timestamp |-> toIsoString(time),
                                     geodetic |-> [eci |-> userEciPos[1], gmst |-> time],
                                     otherSatellite |-> keepSat.name,
                                     distance |-> distSq])
                           ELSE riskyPoints
    /\ UNCHANGED <<dto, pc, maxEnd, clampedEnd, isBeyond14Days, keepTrackSats,
                   keepTrackSatRecs, t, times, ti, userEciPos, response, error,
                   csvFile, fetchCalls, fetched, csvWrites, colRest>>

\* line 206: the catalog is exhausted for this time step
InnerExit ==
    /\ pc = "inner"
    /\ si > Len(keepTrackSatRecs)
    /\ ti' = ti + 1
    /\ pc' = "outer"
    /\ UNCHANGED <<dto, maxEnd, clampedEnd, isBeyond14Days, keepTrackSats,
                   keepTrackSatRecs, t, times, si, userEciPos, riskyPoints,
                   totalChecks, response, error, csvFile, fetchCalls, fetched,
                   propagations, csvWrites, colRest>>

CsvOf(points) ==
    [header |-> "timestamp,latitude,longitude,altitude,otherSatellite",
     rows |-> [i \in 1..Len(points) |->
                  <<points[i].timestamp, points[i].geodetic,
                    points[i].otherSatellite>>]]

\* lines 236-283: probability, risk level, validUntil, the CSV file (whose
\* write may fail and is only logged), the response
Respond ==
    /\ pc = "outer"
    /\ ti > Len(times)
    /\ \E writeOk \in BOOLEAN :
          csvFile' = IF writeOk THEN <<CsvOf(riskyPoints)>> ELSE csvFile
    /\ csvWrites' = csvWrites + 1
    /\ response' =
           <<[riskLevel |-> RiskLevelOf(Len(riskyPoints), totalChecks),
              collisionProbability |->
                  ReportedProbability(Len(riskyPoints), totalChecks),
              validUntil |-> ValidUntilOf(maxEnd, clampedEnd),
              warnings |-> IF isBeyond14Days THEN <<ClampNotice>> ELSE <<>>,
              riskyPoints |-> riskyPoints]>>
    /\ pc' = "done"
    /\ UNCHANGED <<dto, maxEnd, clampedEnd, isBeyond14Days, keepTrackSats,
                   keepTrackSatRecs, t, times, ti, si, userEciPos, riskyPoints,
                   totalChecks, error, fetchCalls, fetched, propagations, colRest>>

Init == ColInit /\ TleIdle /\ RiskIdle /\ OrbIdle /\ ExtIdle

Next ==
    \/ ValidateRequest
    \/ FetchReturns
    \/ TimesPush
    \/ TimesExit
    \/ OuterStep
    \/ InnerStep
    \/ InnerExit
    \/ Respond

Spec == Init /\ [][Next]_vars

\* ---- claims on checkCollision ----

Accepted == pc = "done"

WindowLimit == dto.startTime + TLE_VALID_DAYS * MsPerDay

\* C3 as stated: the returned validUntil is the clamped window end,
\* min(endTime, startTime + 14 days).
ValidUntilIsClampedEnd ==
    Accepted =>
        response[1].validUntil = toIsoString(Min(dto.endTime, WindowLimit))

\* C3 amended: the returned validUntil is startTime + 14 days for every
\* accepted request; it is the clamped window end exactly when endTime is at
\* or after startTime + 14 days.
ValidUntilIsStartPlus14Days ==
    Accepted =>
        /\ response[1].validUntil = toIsoString(WindowLimit)
        /\ (response[1].validUntil = toIsoString(Min(dto.endTime, WindowLimit))
               <=> dto.endTime >= WindowLimit)

ValidUntilAfterShortWindow ==
    /\ Accepted
    /\ dto.endTime < WindowLimit
    /\ response[1].validUntil # toIsoString(dto.endTime)

\* C4: the warnings hold the clamp notice iff endTime is later than
\* startTime + 14 days; then validUntil is startTime + 14 days; otherwise the
\* warnings are empty.
ClampNoticeIffBeyond14Days ==
    Accepted =>
        /\ (\E i \in 1..Len(response[1].warnings) :
                response[1].warnings[i] = ClampNotice)
               <=> dto.endTime > WindowLimit
        /\ dto.endTime > WindowLimit =>
               response[1].validUntil = toIsoString(WindowLimit)
        /\ dto.endTime <= WindowLimit => response[1].warnings = <<>>

ClampedRequestAnswered ==
    /\ Accepted
    /\ dto.endTime > WindowLimit
    /\ response[1].warnings = <<ClampNotice>>

\* C5: the loop that builds the sample times always reaches its end: every
\* iteration brings t nearer to the exit t > clampedEnd, whatever
\* intervalMinutes is.
TimesLoopAdvances ==
    [][pc = "times" /\ pc' = "times" => clampedEnd' - t' < clampedEnd - t]_vars

ConfigurationInvalid == IntervalMinutesOf(dto) <= 0 \/ ThresholdKmOf(dto) <= 0

\* C6: a request whose intervalMinutes or thresholdKm is not positive is
\* rejected before a catalog is fetched, a sample time generated or a position
\* propagated.
BadConfigurationRejectedUpFront ==
    ConfigurationInvalid /\ pc # "start" =>
        /\ pc = "rejected"
        /\ fetchCalls = 0
        /\ times = <<>>
        /\ propagations = 0

\* C7: a request with endTime <= startTime fails with BAD_REQUEST, and no
\* catalog fetch, propagation or CSV write has happened in that run.
InvalidWindowRejectedFirst ==
    dto.endTime <= dto.startTime /\ pc # "start" =>
        /\ pc = "rejected"
        /\ error # <<>> /\ error[1].status = "BAD_REQUEST"
        /\ response = <<>>
        /\ fetchCalls = 0
        /\ propagations = 0
        /\ csvWrites = 0 /\ csvFile = <<>>

InvalidWindowRejected ==
    /\ pc = "rejected"
    /\ TleParses(dto.tle)
    /\ dto.endTime <= dto.startTime
    /\ error[1].message = "endTime must be strictly after startTime"

\* C9: with totalChecks = 0 the report has collisionProbability 0, riskLevel
\* 'low' and no risky points.
NoChecksMeansNoRisk ==
    Accepted /\ totalChecks = 0 =>
        /\ response[1].collisionProbability = 0
        /\ response[1].riskLevel = "low"
        /\ response[1].riskyPoints = <<>>

NoValidComparison ==
    /\ Accepted
    /\ totalChecks = 0
    /\ keepTrackSatRecs # <<>>
    /\ propagations > Len(times)

\* every risky point is the comparison of the user satellite and a parsed
\* catalog object at one time of the grid
RiskyPointsOnGrid ==
    \A p \in 1..Len(riskyPoints) :
        \E k \in 1..Len(times), s \in 1..Len(keepTrackSatRecs) :
            LET user == Propagate(dto.tle, times[k])
                other == Propagate(keepTrackSatRecs[s].tle, times[k])
            IN  /\ riskyPoints[p].timestamp = toIsoString(times[k])
                /\ riskyPoints[p].otherSatellite = keepTrackSatRecs[s].name
                /\ user # <<>> /\ other # <<>>
                /\ riskyPoints[p].geodetic.eci = user[1]
                /\ riskyPoints[p].distance = eciDistanceSq(user[1], other[1])

\* C12: every distance evaluation (every increment of totalChecks) judges the
\* user position and the catalog position of the same time step; every risky
\* point's timestamp is on the time grid; totalChecks never exceeds
\* (number of time steps) x (number of parsed catalog objects).
ComparesSameTimeStepOnly ==
    [][/\ totalChecks' # totalChecks =>
              /\ pc = "inner"
              /\ totalChecks' = totalChecks + 1
              /\ LET user == Propagate(dto.tle, times[ti])
                     other == Propagate(keepTrackSatRecs[si].tle, times[ti])
                 IN  /\ user # <<>> /\ other # <<>>
                     /\ userEciPos = user
                     /\ riskyPoints' # riskyPoints <=>
                            WithinThreshold(eciDistanceSq(user[1], other[1]),
                                            ThresholdKmOf(dto))
       /\ RiskyPointsOnGrid'
       /\ totalChecks' <= Len(times') * Len(keepTrackSatRecs')]_vars

\* a report with a risky point found after the first time step, some
\* comparisons having been skipped
RiskyPointAtLaterStep ==
    /\ Accepted
    /\ Len(times) = MaxTimes
    /\ Len(keepTrackSatRecs) = 2
    /\ totalChecks > 0
    /\ totalChecks < Len(times) * Len(keepTrackSatRecs)
    /\ \E p \in 1..Len(riskyPoints) :
           /\ riskyPoints[p].timestamp # toIsoString(times[1])
           /\ riskyPoints[p].otherSatellite = "B"

TimesComplete == pc \in {"outer", "inner", "done"}

\* C26: with a positive step the sample times are exactly start + k * step,
\* k = 0, 1, ..., as long as that is <= min(endTime, startTime + 14 days):
\* strictly increasing, startTime first, none after the clamped end, and
\* floor((clampedEnd - start) / step) + 1 of them.
SampleTimesAreTheGrid ==
    TimesComplete /\ StepMillisOf(dto) > 0 =>
        LET step == StepMillisOf(dto)
            limit == Min(dto.endTime, WindowLimit)
            n == ((limit - dto.startTime) \div step) + 1
        IN  /\ Len(times) = n
            /\ \A k \in 1..Len(times) :
                   /\ times[k] = dto.startTime + (k - 1) * step
                   /\ times[k] <= limit
                   /\ k > 1 => times[k - 1] < times[k]
            /\ times # <<>> /\ times[1] = dto.startTime
            /\ times[Len(times)] + step > limit

\* a clamped request whose last sample time is the clamped end itself
SampleTimesReachClampedEnd ==
    /\ Accepted
    /\ dto.endTime > WindowLimit
    /\ Len(times) = 3
    /\ times[3] = WindowLimit

\* the (time step, catalog object) pairs in the order of the loops: pair
\* number i of Len(times) * Len(keepTrackSatRecs)
CheckPairStep(i) == ((i - 1) \div Len(keepTrackSatRecs)) + 1

CheckPairObject(i) == ((i - 1) % Len(keepTrackSatRecs)) + 1

CheckPairNumbers == 1..(Len(times) * Len(keepTrackSatRecs))

CheckPairValid(i) ==
    /\ Propagate(dto.tle, times[CheckPairStep(i)]) # <<>>
    /\ Propagate(keepTrackSatRecs[CheckPairObject(i)].tle, times[CheckPairStep(i)]) # <<>>

CheckPairDistanceSq(i) ==
    eciDistanceSq(Propagate(dto.tle, times[CheckPairStep(i)])[1],
                  Propagate(keepTrackSatRecs[CheckPairObject(i)].tle,
                            times[CheckPairStep(i)])[1])

CheckPairRisky(i) ==
    /\ CheckPairValid(i)
    /\ ThresholdKmOf(dto) >= 0
    /\ CheckPairDistanceSq(i) <= ThresholdKmOf(dto) * ThresholdKmOf(dto)

\* the numbers of the risky pairs, ascending
RiskyPairs ==
    SelectSeq([i \in CheckPairNumbers |-> i], LAMBDA i : CheckPairRisky(i))

RiskyPointsNeverExceedChecks ==
    /\ Len(riskyPoints) <= totalChecks
    /\ Accepted =>
           /\ response[1].collisionProbability >= 0
           /\ response[1].collisionProbability <= 100 * 1000

\* a report in which every check was risky
EveryCheckRisky ==
    /\ Accepted
    /\ totalChecks > 1
    /\ Len(riskyPoints) = totalChecks
    /\ response[1].collisionProbability = 100 * 1000

\* the fetched catalog entries whose TLE twoline2satrec rejects
SkippedEntries ==
    {i \in 1..Len(keepTrackSats) : ~TleParses(keepTrackSats[i].tle)}

\* C13: a catalog entry whose TLE cannot be parsed is skipped and the others
\* are still scanned; when the call returns, its warnings report the skipped
\* entries (a warning besides the 14-day notice when an entry was skipped).
SkippedEntriesReportedInWarnings ==
    /\ pc \in {"times", "outer", "inner", "done"} =>
           /\ Len(keepTrackSatRecs) = Len(keepTrackSats) - Cardinality(SkippedEntries)
           /\ \A s \in 1..Len(keepTrackSatRecs) : TleParses(keepTrackSatRecs[s].tle)
    /\ Accepted /\ SkippedEntries # {} =>
           \E w \in 1..Len(response[1].warnings) :
               response[1].warnings[w] # ClampNotice

-----------------------------------------------------------------------------
(* Specification SpecRisk: lines 236-247 and 271 of checkCollision on given *)
(* counters (totalRisky = riskyPoints.length <= totalChecks)               *)

MaxTotalChecks == 12

\* 2001 and 10001 comparisons: e.g. 87 time steps x 23 catalog objects and
\* 73 time steps x 137 catalog objects
RiskCounts ==
    {[totalRisky |-> r, totalChecks |-> c] :
         c \in 0..MaxTotalChecks, r \in 0..MaxTotalChecks}
    \cup {[totalRisky |-> 20, totalChecks |-> 2001],
          [totalRisky |-> 500, totalChecks |-> 10001]}

RiskInit ==
    /\ riskIn \in {x \in RiskCounts : x.totalRisky <= x.totalChecks}
    /\ riskOut = <<>>
    /\ TleIdle /\ ColIdle /\ OrbIdle /\ ExtIdle

Aggregate ==
    /\ riskOut = <<>>
    /\ riskOut' =
           <<[riskLevel |-> RiskLevelOf(riskIn.totalRisky, riskIn.totalChecks),
              collisionProbability |->
                  ReportedProbability(riskIn.totalRisky, riskIn.totalChecks)]>>
    /\ UNCHANGED <<riskIn, tleVars, colVars, orbVars, extVars>>

SpecRisk == RiskInit /\ [][Aggregate]_vars

\* C8: in every report riskLevel is 'high' exactly when the report's
\* collisionProbability is >= 5, 'moderate' exactly when it is >= 1 and < 5,
\* and 'low' otherwise (collisionProbability in units of 0.001).
RiskLevelMatchesReportedProbability ==
    riskOut # <<>> =>
        LET p == riskOut[1].collisionProbability
            level == riskOut[1].riskLevel
        IN  /\ level = "high" <=> p >= HighProbability * 1000
            /\ level = "moderate" <=>
                   (p >= ModerateProbability * 1000 /\ p < HighProbability * 1000)
            /\ level = "low" <=> p < ModerateProbability * 1000

-----------------------------------------------------------------------------
(* Specification SpecOrbit: ScheduleService.checkOrbitIntersection         *)

TRESHOLD_KM == 30

MaxOrbitLen == 3

\* norm(subtract(p1, p2)), squared
NormSubtractSq(p1, p2) ==
    (p1[1] - p2[1]) * (p1[1] - p2[1])
    + (p1[2] - p2[2]) * (p1[2] - p2[2])
    + (p1[3] - p2[3]) * (p1[3] - p2[3])

\* line 249: d < this.TRESHOLD_KM, d >= 0 given by its square
IsCloseInclusive(dSq, threshold) == threshold >= 0 /\ dSq <= threshold * threshold

IsCloseReversed(dSq, threshold) == threshold > 0 /\ dSq > threshold * threshold

IsCloseApart(dSq, threshold) ==
    threshold > 0 /\ dSq > 0 /\ dSq < threshold * threshold

IsClose(dSq, threshold) == threshold > 0 /\ dSq < threshold * threshold

\* lines 247-258, one iteration of the inner loop.  st is [count,
\* interceptions, broke]: the function's two local variables and whether a
\* break has left the inner loop
InnerBody(p1, p2, st, threshold) ==
    LET d == NormSubtractSq(p1, p2)
    IN  IF st.broke THEN st
        ELSE IF IsClose(d, threshold)
        THEN LET pushed == Append(st.interceptions, [poi |-> p2, distance |-> d])
             IN  IF st.count > 1
                 THEN [count |-> st.count, interceptions |-> pushed, broke |-> TRUE]
                 ELSE [count |-> st.count + 1, interceptions |-> pushed,
                       broke |-> st.count + 1 > 1]
        ELSE [count |-> st.count, interceptions |-> st.interceptions,
              broke |-> st.count > 1]

\* sequential composition: rest applied to the value of first
Then(first, rest(_)) == CHOOSE r \in {rest(x) : x \in {first}} : TRUE

\* line 247: the inner loop over o2[lo..hi], in index order; the range is
\* split in halves to keep the evaluation shallow
RECURSIVE IntersectInner(_, _, _, _, _, _)
IntersectInner(p1, o2, lo, hi, st, threshold) ==
    IF lo > hi THEN st
    ELSE IF lo = hi THEN InnerBody(p1, o2[lo], st, threshold)
    ELSE LET mid == (lo + hi) \div 2
         IN  Then(IntersectInner(p1, o2, lo, mid, st, threshold),
                  LAMBDA left : IntersectInner(p1, o2, mid + 1, hi, left, threshold))

\* line 246: the outer loop over o1[lo..hi], in index order; every p1 starts
\* a new inner loop
RECURSIVE IntersectOuter(_, _, _, _, _, _)
IntersectOuter(o1, o2, lo, hi, st, threshold) ==
    IF lo > hi THEN st
    ELSE IF lo = hi
    THEN IntersectInner(o1[lo], o2, 1, Len(o2),
                        [count |-> st.count, interceptions |-> st.interceptions,
                         broke |-> FALSE],
                        threshold)
    ELSE LET mid == (lo + hi) \div 2
         IN  Then(IntersectOuter(o1, o2, lo, mid, st, threshold),
                  LAMBDA left : IntersectOuter(o1, o2, mid + 1, hi, left, threshold))

\* schedule.service.ts checkOrbitIntersection, the threshold made explicit
checkOrbitIntersection(o1, o2, threshold) ==
    IntersectOuter(o1, o2, 1, Len(o1),
                   [count |-> 0, interceptions |-> <<>>, broke |-> FALSE],
                   threshold).interceptions

\* points 10 km, exactly 30 km and more than 30 km apart
OrbitPoints == {<<0, 0, 0>>, <<0, 0, 10>>, <<30, 0, 0>>}

OrbitInit ==
    /\ orbit1 \in SeqsUpTo(OrbitPoints, MaxOrbitLen)
    /\ orbit2 \in SeqsUpTo(OrbitPoints, MaxOrbitLen)
    /\ interceptions = <<>>
    /\ orbPc = "in"
    /\ TleIdle /\ ColIdle /\ RiskIdle /\ ExtIdle

CheckOrbitIntersection ==
    /\ orbPc = "in"
    /\ interceptions' = <<checkOrbitIntersection(orbit1, orbit2, TRESHOLD_KM)>>
    /\ orbPc' = "done"
    /\ UNCHANGED <<orbit1, orbit2, tleVars, colVars, riskVars, extVars>>

SpecOrbit == OrbitInit /\ [][CheckOrbitIntersection]_vars

\* ---- claims on checkOrbitIntersection ----

PairIndexes == (1..Len(orbit1)) \X (1..Len(orbit2))

\* scan order: orbit1 outer, orbit2 inner
ScansBefore(a, b) == a[1] < b[1] \/ (a[1] = b[1] /\ a[2] < b[2])

PairDistanceSq(h) == NormSubtractSq(orbit1[h[1]], orbit2[h[2]])

\* the pairs whose distance is <= the threshold, and those below it
PairsWithin ==
    {h \in PairIndexes : PairDistanceSq(h) <= TRESHOLD_KM * TRESHOLD_KM}

PairsBelow ==
    {h \in PairIndexes : PairDistanceSq(h) < TRESHOLD_KM * TRESHOLD_KM}

RankIn(S, h) == Cardinality({g \in S : ScansBefore(g, h)})

\* the result lists exactly the pairs of S, one interception each, in scan order
ReturnsExactly(S) ==
    /\ Len(interceptions[1]) = Cardinality(S)
    /\ \A h \in S :
           interceptions[1][RankIn(S, h) + 1]
               = [poi |-> orbit2[h[2]], distance |-> PairDistanceSq(h)]

\* C10 as stated: one interception for every pair whose distance is <= the
\* threshold, none omitted, the boundary distance included.
ReturnsEveryPairWithinThreshold ==
    orbPc = "done" => ReturnsExactly(PairsWithin)

\* the pairs the two loops keep: the first two pairs below the threshold in
\* scan order and, after the second, only pairs of a later orbit1 point with
\* the first orbit2 point
PairsKept ==
    {h \in PairsBelow :
        \/ RankIn(PairsBelow, h) < 2
        \/ \E g \in PairsBelow :
               RankIn(PairsBelow, g) = 1 /\ h[1] > g[1] /\ h[2] = 1}

\* C10 amended: one interception, in scan order, for every pair whose
\* distance is strictly below the threshold up to and including the second
\* such pair, and after it for such pairs of a later orbit1 point with the
\* first orbit2 point only; in particular the result is complete when at most
\* two pairs are below the threshold.
ReturnsPairsBelowThresholdUntilSecond ==
    orbPc = "done" =>
        /\ ReturnsExactly(PairsKept)
        /\ Cardinality(PairsBelow) <= 2 => ReturnsExactly(PairsBelow)

PairsOmittedAfterSecond ==
    /\ orbPc = "done"
    /\ Cardinality(PairsBelow) > Len(interceptions[1])
    /\ Len(interceptions[1]) > 2
    /\ PairsWithin # PairsBelow

-----------------------------------------------------------------------------
(* Specification SpecThreshold: checkOrbitIntersection called twice on the *)
(* same two orbits, the field TRESHOLD_KM holding a value of Thresholds at *)
(* each call.  interceptions lists the calls: [threshold, result].         *)

Thresholds == {0, 1, 11, TRESHOLD_KM, TRESHOLD_KM + 2}

ThresholdInit ==
    /\ orbit1 \in SeqsUpTo(OrbitPoints, MaxOrbitLen)
    /\ orbit2 \in SeqsUpTo(OrbitPoints, MaxOrbitLen)
    /\ interceptions = <<>>
    /\ orbPc = "in"
    /\ TleIdle /\ ColIdle /\ RiskIdle /\ ExtIdle

CheckAtThreshold ==
    /\ orbPc = "in"
    /\ \E threshold \in Thresholds :
          interceptions' =
              Append(interceptions,
                     [threshold |-> threshold,
                      result |-> checkOrbitIntersection(orbit1, orbit2, threshold)])
    /\ orbPc' = IF Len(interceptions) = 1 THEN "done" ELSE "in"
    /\ UNCHANGED <<orbit1, orbit2, tleVars, colVars, riskVars, extVars>>

SpecThreshold == ThresholdInit /\ [][CheckAtThreshold]_vars

\* C11: for fixed orbit1 and orbit2 the number of interceptions returned is
\* non-decreasing in the threshold: of two calls the one with the larger
\* threshold returns at least as many.
InterceptionsNonDecreasingInThreshold ==
    \A a, b \in 1..Len(interceptions) :
        interceptions[a].threshold <= interceptions[b].threshold =>
            Len(interceptions[a].result) <= Len(interceptions[b].result)

\* two calls, the second with the larger threshold and the longer result, both
\* cut short by the early exit
LargerThresholdLongerResult ==
    /\ orbPc = "done"
    /\ interceptions[1].threshold < interceptions[2].threshold
    /\ Len(interceptions[1].result) > 2
    /\ Len(interceptions[1].result) < Len(interceptions[2].result)
    /\ Len(interceptions[2].result) < Len(orbit1) * Len(orbit2)

\* C17: checkOrbitIntersection(o, o) of a non-empty o under a positive
\* threshold returns at least one interception of distance 0.
IdenticalOrbitsMeetAtZero ==
    \A a \in 1..Len(interceptions) :
        orbit1 = orbit2 /\ orbit1 # <<>> /\ interceptions[a].threshold > 0 =>
            \E k \in 1..Len(interceptions[a].result) :
                interceptions[a].result[k].distance = 0

IdenticalOrbitsCompared ==
    /\ orbPc = "done"
    /\ orbit1 = orbit2
    /\ Len(orbit1) > 1
    /\ interceptions[1].threshold = 1
    /\ interceptions[2].threshold = TRESHOLD_KM
    /\ Len(interceptions[2].result) > Len(interceptions[1].result)

-----------------------------------------------------------------------------
(* Specification SpecSample: ScheduleService.getOrbitPoints and            *)
(* generateEllipseFromTLE, called up to MaxSampleCalls times with the same *)
(* arguments while the system time advances.                               *)
(*                                                                         *)
(* new Date(x) keeps the whole milliseconds of x; the quotients are taken  *)
(* exactly.                                                                *)

MinutesPerDay == 1440

SecondsPerDay == 86400

MaxSamples == 4

MaxSampleCalls == 2

MaxTicks == 2

TickMillis == 10 * MsPerMinute

\* satellite.twoline2satrec(tle1, tle2).no of the TLEs used here
SatrecNo(tle) == IF tle = "B" THEN 18 ELSE 24

\* lines 42-43: startDate.getTime() + ((periodMinutes / samples) * i) * 60 * 1000
\* with periodMinutes = 1440 / satrec.no
OrbitPointTime(no, startDate, samples, i) ==
    startDate + (MinutesPerDay * 60 * 1000 * i) \div (no * samples)

\* lines 276-278: startTime.getTime() + (i * periodSeconds * 1000) / sampleCount
\* with periodSeconds = 86400 / satrec.no
EllipseSampleTime(no, startTime, sampleCount, i) ==
    startTime + (i * (SecondsPerDay \div no) * 1000) \div sampleCount

\* the loop for (i = 0; i < samples; i++): the iterations, none for samples <= 0
Iterations(samples) == IF samples > 0 THEN samples ELSE 0

\* lines 45-48 and 282-288: an invalid position is passed over (continue)
StopAtInvalid(results) ==
    LET invalid == {i \in 1..Len(results) : results[i] = <<>>}
        stop == IF invalid = {} THEN Len(results) + 1
                ELSE CHOOSE i \in invalid : \A j \in invalid : i <= j
    IN  [i \in 1..(stop - 1) |-> results[i][1]]

KeepValid(results) ==
    LET valid == SelectSeq(results, LAMBDA r : r # <<>>)
    IN  [i \in 1..Len(valid) |-> valid[i][1]]

\* schedule.service.ts getOrbitPoints
getOrbitPoints(tle, startDate, samples) ==
    IF ~TleParses(tle) THEN [threw |-> TRUE, times |-> <<>>, points |-> <<>>]
    ELSE LET ts == [i \in 1..Iterations(samples) |->
                       OrbitPointTime(SatrecNo(tle), startDate, samples, i - 1)]
         IN  [threw |-> FALSE, times |-> ts,
              points |-> KeepValid([i \in 1..Len(ts) |-> Propagate(tle, ts[i])])]

\* schedule.service.ts generateEllipseFromTLE; now is what new Date() reads
generateEllipseFromTLE(tle, sampleCount, now) ==
    IF ~TleParses(tle) THEN [threw |-> TRUE, times |-> <<>>, points |-> <<>>]
    ELSE LET ts == [i \in 1..Iterations(sampleCount) |->
                       EllipseSampleTime(SatrecNo(tle), now, sampleCount, i - 1)]
         IN  [threw |-> FALSE, times |-> ts,
              points |-> KeepValid([i \in 1..Len(ts) |-> Propagate(tle, ts[i])])]

SampleInit ==
    /\ clock \in {0, 5 * MsPerMinute}
    /\ smpArgs \in [tle : {"A", "B", "D", "UD", "BAD"},
                    startDate : {0, TickMillis},
                    samples : (-1)..MaxSamples]
    /\ smpCalls = <<>>
    /\ TleIdle /\ ColIdle /\ RiskIdle /\ OrbIdle /\ SchIdle /\ KepIdle /\ LateIdle

GetOrbitPoints ==
    /\ smpArgs # <<>>
    /\ Len(smpCalls) < MaxSampleCalls
    /\ smpCalls' =
           Append(smpCalls,
                  [fn |-> "getOrbitPoints"]
                  @@ getOrbitPoints(smpArgs.tle, smpArgs.startDate, smpArgs.samples))
    /\ UNCHANGED <<clock, smpArgs, tleVars, colVars, riskVars, orbVars, schVars,
                   kepVars, lateVars>>

GenerateEllipseFromTLE ==
    /\ smpArgs # <<>>
    /\ Len(smpCalls) < MaxSampleCalls
    /\ smpCalls' =
           Append(smpCalls,
                  [fn |-> "generateEllipseFromTLE"]
                  @@ generateEllipseFromTLE(smpArgs.tle, smpArgs.samples, clock))
    /\ UNCHANGED <<clock, smpArgs, tleVars, colVars, riskVars, orbVars, schVars,
                   kepVars, lateVars>>

\* time passes between two calls
ClockTick ==
    /\ smpArgs # <<>>
    /\ clock < MaxTicks * TickMillis
    /\ clock' = clock + TickMillis
    /\ UNCHANGED <<smpArgs, smpCalls, tleVars, colVars, riskVars, orbVars, schVars,
                   kepVars, lateVars>>

SampleNext == GetOrbitPoints \/ GenerateEllipseFromTLE \/ ClockTick

SpecSample == SampleInit /\ [][SampleNext]_vars

\* ---- claims on the orbit samplers ----

\* the indices of a call's samples that propagate
ValidSamples(c) ==
    {i \in 1..Len(c.times) : Propagate(smpArgs.tle, c.times[i]) # <<>>}

\* C15: no call fails because a sample cannot be propagated; the returned
\* sequence is exactly the valid propagation results of the sample indices
\* 0..sampleCount-1 in increasing index order, so its length is sampleCount
\* minus the number of invalid samples, and 0 when sampleCount <= 0.
SamplersReturnValidSamplesInOrder ==
    \A a \in 1..Len(smpCalls) :
        LET c == smpCalls[a]
        IN  /\ c.threw => ~TleParses(smpArgs.tle)
            /\ ~c.threw =>
                  /\ Len(c.times) = Iterations(smpArgs.samples)
                  /\ Len(c.points) = Len(c.times)
                         - Cardinality((1..Len(c.times)) \ ValidSamples(c))
                  /\ \A i \in ValidSamples(c) :
                         c.points[Cardinality({j \in ValidSamples(c) : j <= i})]
                             = Propagate(smpArgs.tle, c.times[i])[1]
                  /\ smpArgs.samples <= 0 => c.points = <<>>

\* both samplers have met an invalid sample between two valid ones
InvalidSampleSkipped ==
    /\ Len(smpCalls) = 2
    /\ smpCalls[1].fn # smpCalls[2].fn
    /\ \A a \in 1..2 :
           \E i, j, k \in 1..Len(smpCalls[a].times) :
               /\ i < j /\ j < k
               /\ {i, k} \subseteq ValidSamples(smpCalls[a])
               /\ j \notin ValidSamples(smpCalls[a])
               /\ Len(smpCalls[a].points) = Len(smpCalls[a].times) - 1

\* C16: two calls of the same sampler with identical arguments evaluate
\* propagate at the same times and return identical point sequences.
SamplingIsRestartable ==
    \A a, b \in 1..Len(smpCalls) :
        smpCalls[a].fn = smpCalls[b].fn =>
            /\ smpCalls[a].times = smpCalls[b].times
            /\ smpCalls[a].points = smpCalls[b].points

-----------------------------------------------------------------------------
(* Specification SpecSchedule: ScheduleService.schedule, one request       *)
(*                                                                         *)
(* A launch is [name, type, orbit, window_start, window_end, entry]:       *)
(* orbit is the optional mission.orbit.abbrev, the window times are ms,    *)
(* and entry is the ECI point of entry that lines 384-399 compute from the *)
(* pad and the window (estimateLEOEntry, geodeticToEci).                   *)

SAMPLES_PER_ORBIT == 16

\* ORBITAL_VELOCITY = 7.12 km/s, in units of 0.01 km/s
ORBITAL_VELOCITY == 712

MaxLaunches == 2

cross(a, b) ==
    <<a[2] * b[3] - a[3] * b[2], a[3] * b[1] - a[1] * b[3], a[1] * b[2] - a[2] * b[1]>>

\* normalize, lines 26-27: norm(v) is 0, that is every component is 0
ZeroLength(v) == v[1] = 0 /\ v[2] = 0 /\ v[3] = 0

JsError(message) == [message |-> message, status |-> "Error"]

\* line 404: Math.round(this.SAMPLES_PER_ORBIT * 1.5)
CandidateSamples == (3 * SAMPLES_PER_ORBIT + 1) \div 2

\* schedule.service.ts generateEllipseFromTwoECI.  normalize throws for
\* h = r1 x r2 of length 0 (line 301) and for h x r1 of length 0 (line 303).
\* With v perpendicular to r1 the eccentricity vector of line 317 is
\* v * (|v|^2 - mu / |r1|) and the periapsis of line 323 a multiple of it, both
\* of length 0 only for |r1| = mu / |v|^2, which no point with whole
\* coordinates has; lines 322-326 then do not throw.  The sampleCount points
\* of lines 329-337 are real combinations of two unit vectors of the plane of
\* r1 and r2; each is carried here by one of the two points that span it.
generateEllipseFromTwoECI(r1, r2, velocity, sampleCount) ==
    LET h == cross(r1, r2)
    IN  IF ZeroLength(h) \/ ZeroLength(cross(h, r1))
        THEN [threw |-> TRUE, points |-> <<>>]
        ELSE [threw |-> FALSE,
              points |-> [i \in 1..sampleCount |-> IF i % 2 = 1 THEN r1 ELSE r2]]

\* lines 144-148 and 394-398: the middle of the launch window
LaunchDate(launch) == (launch.window_start + launch.window_end) \div 2

\* a < b on two Dates given by their getTime(), <<>> for the NaN of an
\* Invalid Date: false when either is NaN
DateBefore(a, b) == a # <<>> /\ b # <<>> /\ a[1] < b[1]

\* getAdeqateLaunches, the filter of lines 135-156; time_frame.start and
\* time_frame.end are what new Date(string).getTime() gives
Adequate(launch, orbit, time_frame) ==
    /\ launch.type = "Commercial"
    /\ launch.orbit # <<>> /\ launch.orbit[1] = orbit
    /\ ~(\/ DateBefore(<<LaunchDate(launch)>>, time_frame.start)
          \/ DateBefore(time_frame.end, <<LaunchDate(launch)>>))

\* lines 383-416: the candidate of one adequate launch
CandidateOf(launch, points_of_interest) ==
    LET poe == launch.entry
        orbit == generateEllipseFromTwoECI(poe, points_of_interest[1],
                                           ORBITAL_VELOCITY, CandidateSamples)
    IN  [threw |-> orbit.threw,
         opt |-> [time |-> LaunchDate(launch), point |-> poe,
                  orbit |-> orbit.points, launch |-> launch]]

\* lines 219-236: the entry of one candidate in the result
LaunchSummary(launch) ==
    [window_start |-> launch.window_start, window_end |-> launch.window_end,
     name |-> launch.name]

\* calculateInterceptionsForAll, lines 193-237, on the fetched catalog; now is
\* the system time generateEllipseFromTLE reads
calculateInterceptionsForAll(opts_for_orbiting, data, now) ==
    LET objects == [k \in 1..Len(data) |->
                       [satelite |-> data[k],
                        orbit |-> generateEllipseFromTLE(data[k].tle,
                                                         SAMPLES_PER_ORBIT, now)]]
        scanned(opt) ==
            [k \in 1..Len(objects) |->
                [sat |-> objects[k].satelite,
                 interceptions |->
                     checkOrbitIntersection(opt.orbit, objects[k].orbit.points,
                                            TRESHOLD_KM)]]
        intercepted(opt) ==
            SelectSeq(scanned(opt), LAMBDA x : Len(x.interceptions) > 0)
    IN  IF \E k \in 1..Len(objects) : objects[k].orbit.threw
        THEN [threw |-> TRUE, value |-> <<>>]
        ELSE [threw |-> FALSE,
              value |-> [o \in 1..Len(opts_for_orbiting) |->
                            [point |-> opts_for_orbiting[o].point,
                             launch |-> LaunchSummary(opts_for_orbiting[o].launch),
                             interceptions |-> intercepted(opts_for_orbiting[o]),
                             interceptions_count |->
                                 Len(intercepted(opts_for_orbiting[o]))]]]

\* ---- inputs ----

HourMillis == 60 * MsPerMinute

LaunchEntries ==
    {[name |-> "L1", type |-> "Commercial", orbit |-> <<"LEO">>,
      window_start |-> HourMillis, window_end |-> 3 * HourMillis,
      entry |-> <<1, 0, 0>>],
     [name |-> "L2", type |-> "Commercial", orbit |-> <<"LEO">>,
      window_start |-> 2 * HourMillis, window_end |-> 2 * HourMillis,
      entry |-> <<0, 40, 0>>],
     [name |-> "L3", type |-> "Government", orbit |-> <<"LEO">>,
      window_start |-> HourMillis, window_end |-> 3 * HourMillis,
      entry |-> <<0, 1, 0>>],
     [name |-> "L4", type |-> "Commercial", orbit |-> <<>>,
      window_start |-> HourMillis, window_end |-> 3 * HourMillis,
      entry |-> <<0, 1, 0>>],
     [name |-> "L5", type |-> "Commercial", orbit |-> <<"LEO">>,
      window_start |-> 30 * HourMillis, window_end |-> 40 * HourMillis,
      entry |-> <<0, 1, 0>>]}

\* what the Launch Library request can answer
LaunchFetchResults ==
    {[ok |-> FALSE, isArray |-> FALSE, results |-> <<>>],
     [ok |-> TRUE, isArray |-> FALSE, results |-> <<>>]}
    \cup {[ok |-> TRUE, isArray |-> TRUE, results |-> l] :
              l \in SeqsUpTo(LaunchEntries, MaxLaunches)}

ScheduleInit ==
    /\ schReq \in [orbit : {"LEO", "GEO"},
                   time_frame : {[start |-> <<0>>, end |-> <<24 * HourMillis>>],
                                 [start |-> <<>>, end |-> <<24 * HourMillis>>]},
                   points_of_interest :
                       {<<>>, << <<2, 0, 0>> >>, << <<0, 0, 50>> >>,
                        << <<0, 0, 3>>, <<2, 0, 0>> >>}]
    /\ schPc = "start"
    /\ launches = <<>> /\ filtered = <<>> /\ pointsOfOrbiting = <<>>
    /\ schResponse = <<>> /\ schError = <<>>
    /\ clock \in {0, TickMillis}
    /\ smpArgs = <<>> /\ smpCalls = <<>>
    /\ TleIdle /\ ColIdle /\ RiskIdle /\ OrbIdle /\ KepIdle /\ LateIdle

schRest == <<tleVars, colVars, riskVars, orbVars, smpVars, kepVars, lateVars>>

\* requestLaunches, lines 103-108: no request is sent for another orbit
RequestLaunchesRejects ==
    /\ schPc = "start"
    /\ schReq.orbit # "LEO"
    /\ schError' = <<HttpException("Only LEO orbit is supported for now",
                                   "BAD_REQUEST")>>
    /\ schPc' = "failed"
    /\ UNCHANGED <<schReq, launches, filtered, pointsOfOrbiting, schResponse,
                   schRest>>

\* lines 110-128 and 372-420: the launches arrive, are filtered, and a
\* candidate orbit is built for each adequate launch
LaunchesReturn ==
    /\ schPc = "start"
    /\ schReq.orbit = "LEO"
    /\ \E res \in LaunchFetchResults :
          LET adequate == SelectSeq(res.results,
                              LAMBDA l : Adequate(l, schReq.orbit, schReq.time_frame))
              candidates == [i \in 1..Len(adequate) |->
                                CandidateOf(adequate[i], schReq.points_of_interest)]
          IN  IF ~res.ok \/ ~res.isArray
              THEN /\ schError' = <<HttpException(
                                      IF ~res.ok THEN "HTTP error! Status"
                                      ELSE "Expected an array of launches",
                                      "BAD_REQUEST")>>
                   /\ schPc' = "failed"
                   /\ UNCHANGED <<launches, filtered, pointsOfOrbiting>>
              ELSE IF Len(schReq.points_of_interest) < 1
              THEN /\ schError' = <<HttpException(
                                      "Expecting at least one point of interest",
                                      "BAD_REQUEST")>>
                   /\ schPc' = "failed"
                   /\ launches' = res.results
                   /\ filtered' = adequate
                   /\ UNCHANGED pointsOfOrbiting
              ELSE IF \E i \in 1..Len(candidates) : candidates[i].threw
              THEN /\ schError' = <<JsError("Zero-length vector")>>
                   /\ schPc' = "failed"
                   /\ launches' = res.results
                   /\ filtered' = adequate
                   /\ UNCHANGED pointsOfOrbiting
              ELSE /\ launches' = res.results
                   /\ filtered' = adequate
                   /\ pointsOfOrbiting' =
                          [i \in 1..Len(candidates) |-> candidates[i].opt]
                   /\ schPc' = "catalog"
                   /\ UNCHANGED schError
    /\ UNCHANGED <<schReq, schResponse, schRest>>

\* calculateInterceptionsForAll, lines 177-237, and lines 422-432: the
\* catalog arrives and the result is returned
CatalogReturns ==
    /\ schPc = "catalog"
    /\ \E res \in FetchResults :
          LET calculated == calculateInterceptionsForAll(pointsOfOrbiting,
                                                         res.data, clock)
          IN  IF ~res.ok \/ ~res.isArray
              THEN /\ schError' = <<HttpException(
                                      IF ~res.ok THEN "HTTP error! Status"
                                      ELSE "Expected an array of satellites",
                                      "BAD_REQUEST")>>
                   /\ schPc' = "failed"
                   /\ UNCHANGED schResponse
              ELSE IF calculated.threw
              THEN /\ schError' = <<JsError("twoline2satrec")>>
                   /\ schPc' = "failed"
                   /\ UNCHANGED schResponse
              ELSE /\ schResponse' =
                          <<[count |-> Len(calculated.value),
                             adequete_launches |-> calculated.value]>>
                   /\ schPc' = "done"
                   /\ UNCHANGED schError
    /\ UNCHANGED <<schReq, launches, filtered, pointsOfOrbiting, schRest>>

ScheduleNext == RequestLaunchesRejects \/ LaunchesReturn \/ CatalogReturns

SpecSchedule == ScheduleInit /\ [][ScheduleNext]_vars

\* ---- claims on schedule ----

\* the adequate launches whose candidate orbit can be built
Convertible ==
    SelectSeq(filtered,
              LAMBDA l : ~CandidateOf(l, schReq.points_of_interest).threw)

\* C14: a candidate orbit that cannot be built ('Zero-length vector') fails
\* that launch's conversion only: the call is not aborted by it, and the
\* other adequate launches are evaluated and returned.
ZeroLengthFailsOneLaunchOnly ==
    /\ schError # <<>> => schError[1].message # "Zero-length vector"
    /\ schPc = "done" =>
           /\ schResponse[1].count = Len(Convertible)
           /\ \A i \in 1..Len(Convertible) :
                  schResponse[1].adequete_launches[i].launch
                      = LaunchSummary(Convertible[i])

\* the positions in launches of the launches kept by the filter, ascending
KeptPositions ==
    SelectSeq([i \in 1..Len(launches) |-> i],
              LAMBDA i : Adequate(launches[i], schReq.orbit, schReq.time_frame))

\* C24: every launch of the result of schedule is a fetched launch of a
\* commercial provider, of the requested orbit 'LEO', whose window midpoint
\* (window_start + window_end) / 2 is within [time_frame.start,
\* time_frame.end], bounds included; the result keeps the order of the
\* fetched launches and count is the length of adequete_launches.
ResultLaunchesAreAdequateInOrder ==
    schPc = "done" =>
        LET result == schResponse[1].adequete_launches
        IN  /\ schResponse[1].count = Len(result)
            /\ Len(result) = Len(KeptPositions)
            /\ \A i \in 1..Len(result) :
                   LET launch == launches[KeptPositions[i]]
                   IN  /\ result[i].launch = LaunchSummary(launch)
                       /\ launch.type = "Commercial"
                       /\ launch.orbit = <<schReq.orbit>>
                       /\ schReq.orbit = "LEO"
                       /\ schReq.time_frame.start # <<>>
                       /\ schReq.time_frame.end # <<>>
                       /\ schReq.time_frame.start[1] <= LaunchDate(launch)
                       /\ LaunchDate(launch) <= schReq.time_frame.end[1]

-----------------------------------------------------------------------------
(* Specification SpecKepler: getKeplerianFromRV (utils/getKeplerianFromRV) *)
(*                                                                         *)
(* r and v have whole coordinates (km, km/s) and |r| is whole, so that     *)
(* every sign, every zero and every comparison of the function is decided  *)
(* in whole numbers.  mu = 398600.4418 is MuFloor + MuFrac4 / 10000.       *)
(* With R = |r|, component i of eVec (lines 33-36) is                      *)
(*     (D[i] - 0.4418 * v[i]) / R,                                         *)
(*     D[i] = v[i] * (|v|^2 * R - 398600) - r[i] * R * (r . v),            *)
(* and so is, with D and v replaced by their products, every dot and cross *)
(* product of eVec with a whole vector.  For r = 0 the quotient mu / |r|   *)
(* is Infinity: component i of eVec is -Infinity, +Infinity or NaN as v[i] *)
(* is positive, negative or 0.                                             *)
(* An angle is known by its class: an exact number of degrees, an open     *)
(* interval of degrees, or NaN.                                            *)

MuFloor == 398600

MuFrac4 == 4418

Sgn(x) == IF x > 0 THEN 1 ELSE IF x < 0 THEN -1 ELSE 0

dot(a, b) == a[1] * b[1] + a[2] * b[2] + a[3] * b[3]

\* norm of a whole vector whose norm is whole
norm(a) ==
    IF a[2] = 0 /\ a[3] = 0 THEN Abs(a[1])
    ELSE IF a[1] = 0 /\ a[3] = 0 THEN Abs(a[2])
    ELSE IF a[1] = 0 /\ a[2] = 0 THEN Abs(a[3])
    ELSE CHOOSE k \in 0..(Abs(a[1]) + Abs(a[2]) + Abs(a[3])) : k * k = dot(a, a)

\* the sign of D - 0.4418 * w
SignLin(D, w) ==
    IF D > Abs(w) THEN 1
    ELSE IF -D > Abs(w) THEN -1
    ELSE Sgn(10000 * D - MuFrac4 * w)

\* lines 33-36: the whole part D of eVec (times R)
EVecD(r, v) ==
    LET R == norm(r)
    IN  [i \in 1..3 |->
            v[i] * (dot(v, v) * R - MuFloor) - r[i] * (R * dot(r, v))]

\* the sign of eVec[i]; 0 also stands for NaN when r = 0
EVecSign(r, v, i) ==
    IF norm(r) = 0 THEN -Sgn(v[i]) ELSE SignLin(EVecD(r, v)[i], v[i])

RECURSIVE Gcd(_, _)
Gcd(a, b) == IF b = 0 THEN Abs(a) ELSE Gcd(b, a % Abs(b))

\* the whole vector of the direction of w with the smallest coordinates
Direction(w) ==
    LET g == Gcd(Gcd(w[1], w[2]), w[3])
    IN  IF g = 0 THEN w ELSE [i \in 1..3 |-> w[i] \div g]

\* the sign of dot(w, eVec) for a whole vector w, r # 0
EVecDotSign(r, v, w) ==
    SignLin(dot(Direction(w), EVecD(r, v)), dot(Direction(w), v))

\* cross(w, eVec) is the zero vector, r # 0
EVecParallel(r, v, w) ==
    LET cD == cross(Direction(w), EVecD(r, v))
        cV == cross(Direction(w), v)
    IN  \A i \in 1..3 : SignLin(cD[i], cV[i]) = 0

\* norm(eVec) is 0
EVecIsZero(r, v) ==
    norm(r) # 0 /\ \A i \in 1..3 : EVecSign(r, v, i) = 0

\* lines 37 and 41: e > 1e-8 with e = norm(eVec) / mu, i.e.
\* norm(eVec) > 0.003986004418.  Some |eVec[i]| >= 1 decides it one way;
\* every |eVec[i]| <= 2 / 1200 decides it the other way.
EccentricityAboveTiny(r, v) ==
    LET R == norm(r)
        D == EVecD(r, v)
    IN  CASE R = 0 -> \A i \in 1..3 : v[i] # 0
          [] R # 0 /\ (\E i \in 1..3 : Abs(D[i]) >= R + Abs(v[i])) -> TRUE
          [] R # 0 /\ (\A i \in 1..3 : D[i] = 0 /\ v[i] = 0) -> FALSE
          [] R >= 1200 /\ (\A i \in 1..3 : Abs(D[i]) <= 1 /\ Abs(v[i]) <= 2)
                 /\ (\E i \in 1..3 : v[i] # 0) -> FALSE

Exact(deg) == [nan |-> FALSE, lo |-> deg, hi |-> deg, open |-> FALSE]

Between(lo, hi) == [nan |-> FALSE, lo |-> lo, hi |-> hi, open |-> TRUE]

NaNAngle == [nan |-> TRUE, lo |-> 0, hi |-> 0, open |-> FALSE]

\* Math.acos(c) * (180 / Math.PI) for the cosine c = dot / (|a| |b|) of two
\* vectors: undefined says a norm is 0 (or NaN), parallel that their cross
\* product is 0, sign is the sign of dot
AcosDegrees(undefined, sign, parallel) ==
    IF undefined THEN NaNAngle
    ELSE IF sign = 0 THEN Exact(90)
    ELSE IF parallel THEN (IF sign > 0 THEN Exact(0) ELSE Exact(180))
    ELSE IF sign > 0 THEN Between(0, 90)
    ELSE Between(90, 180)

\* 360 - angle's degrees
Minus360(angle) ==
    IF angle.nan THEN angle
    ELSE [nan |-> FALSE, lo |-> 360 - angle.hi, hi |-> 360 - angle.lo,
          open |-> angle.open]

\* lines 58-66: isOpposite ? 360 - degrees : degrees
Corrected(isOpposite, angle) == IF isOpposite THEN Minus360(angle) ELSE angle

\* lines 51-52: semiMajorAxis = -mu / (2 * energy), by its sign.  energy has
\* the sign of |v|^2 * R - 2 * mu, never 0 for whole |v|^2 * R; for r = 0
\* energy is -Infinity and semiMajorAxis 0.
SemiMajorAxisOf(r, v) ==
    IF norm(r) = 0 THEN "zero"
    ELSE IF dot(v, v) * norm(r) > 2 * MuFloor THEN "negative"
    ELSE "positive"

\* utils/getKeplerianFromRV.ts getKeplerianFromRV
getKeplerianFromRV(r, v) ==
    LET rMag == norm(r)
        h == cross(r, v)
        n == cross(<<0, 0, 1>>, h)
        nIsZero == ZeroLength(n)
        eUndefined == rMag = 0 \/ EVecIsZero(r, v)
        inclination == AcosDegrees(ZeroLength(h), Sgn(h[3]), h[1] = 0 /\ h[2] = 0)
        raan == IF ~nIsZero THEN AcosDegrees(FALSE, Sgn(n[1]), n[2] = 0)
                ELSE Exact(0)
        omega == IF EccentricityAboveTiny(r, v) /\ ~nIsZero
                 THEN AcosDegrees(eUndefined, EVecDotSign(r, v, n),
                                  EVecParallel(r, v, n))
                 ELSE Exact(0)
        nu == IF eUndefined THEN NaNAngle
              ELSE AcosDegrees(FALSE, EVecDotSign(r, v, r), EVecParallel(r, v, r))
        isNuOpposite == dot(r, v) < 0
        isOmegaOpposite == EVecSign(r, v, 3) < 0
        isRaanOpposite == n[2] < 0
    IN  [threw |-> FALSE,
         semiMajorAxis |-> SemiMajorAxisOf(r, v),
         inclination |-> inclination,
         raan |-> Corrected(isRaanOpposite, raan),
         argOfPerigee |-> Corrected(isOmegaOpposite, omega),
         trueAnomaly |-> Corrected(isNuOpposite, nu)]

\* ---- inputs ----

\* state vectors around a body of unit scale, all directions and signs
SmallStates ==
    {<<2, 0, 0>>, <<0, 0, 2>>, <<1, 2, 2>>, <<0, 0, 0>>}
    \X {<<0, 1, 0>>, <<0, -1, 0>>, <<0, 0, 1>>, <<0, 0, -1>>, <<1, 0, 0>>,
        <<-1, 0, 0>>, <<0, 1, 1>>, <<0, 1, -1>>, <<-1, 1, 0>>, <<1, -1, 2>>,
        <<0, 0, 0>>, <<2, 1, -1>>, <<-1, -1, -1>>}

\* state vectors at orbital radii, v perpendicular to r: elliptical,
\* hyperbolic and (at 199300 km and 1.414 km/s) circular to within 1e-11
OrbitalStates ==
    ({<<7000, 0, 0>>, <<199300, 0, 0>>}
        \X {<<0, 7, 3>>, <<0, -7, 3>>, <<0, 7, -3>>, <<0, 9, 7>>, <<0, 0, 8>>,
            <<0, 8, 0>>, <<0, 11, 0>>, <<0, -1, 1>>, <<0, 1, 1>>, <<0, 1, -1>>,
            <<0, -1, -1>>, <<0, 0, 0>>})
    \cup ({<<4200, 5600, 0>>} \X {<<-4, 3, 5>>, <<-4, 3, -5>>, <<4, -3, 0>>,
                                  <<-8, 6, 5>>})

KeplerInit ==
    /\ kepIn \in {[r |-> s[1], v |-> s[2]] : s \in SmallStates \cup OrbitalStates}
    /\ kepOut = <<>>
    /\ TleIdle /\ ColIdle /\ RiskIdle /\ OrbIdle /\ SmpIdle /\ SchIdle /\ LateIdle

GetKeplerianFromRV ==
    /\ kepIn # <<>>
    /\ kepOut = <<>>
    /\ kepOut' = <<getKeplerianFromRV(kepIn.r, kepIn.v)>>
    /\ UNCHANGED <<kepIn, tleVars, colVars, riskVars, orbVars, smpVars, schVars,
                   lateVars>>

SpecKepler == KeplerInit /\ [][GetKeplerianFromRV]_vars

\* ---- claims on getKeplerianFromRV ----

\* the angle lies in [0, 360)
Normalized(angle) ==
    /\ ~angle.nan
    /\ angle.lo >= 0
    /\ IF angle.open THEN angle.hi <= 360 ELSE angle.hi < 360

\* C18: raan, argOfPerigee and trueAnomaly of every result lie in [0, 360),
\* the branches that set an angle to 0 before the 360-minus correction
\* included.
AnglesNormalized ==
    kepOut # <<>> =>
        /\ Normalized(kepOut[1].raan)
        /\ Normalized(kepOut[1].argOfPerigee)
        /\ Normalized(kepOut[1].trueAnomaly)

\* C19: for a state vector with semi-major axis <= 0 (energy >= 0) or with
\* |r| = 0 the function fails instead of returning elements; no returned
\* element set has semiMajorAxis <= 0.
NonEllipticalStateRejected ==
    kepOut # <<>> =>
        /\ (norm(kepIn.r) = 0 \/ dot(kepIn.v, kepIn.v) * norm(kepIn.r) > 2 * MuFloor)
               => kepOut[1].threw
        /\ ~kepOut[1].threw => kepOut[1].semiMajorAxis = "positive"

-----------------------------------------------------------------------------
(* AppService.heatmap (orbit.service.ts 325-450) and AppService.getDebris  *)
(* (app.service.ts 10-80), one request                                     *)
(*                                                                         *)
(* A catalog satellite is [name, type, tle, pos, geo]: tle is "OK", "BAD"  *)
(* (twoline2satrec throws) or "NOPOS" (propagate gives no position); pos   *)
(* is the ECI position propagate gives at the requested time and geo the   *)
(* [lat, lon, alt] that eciToGeodetic, degreesLat and degreesLong make of  *)
(* it (degrees, km).  A member of the types array is a JavaScript value    *)
(* [kind, value].                                                          *)

JsNumber(n) == [kind |-> "number", value |-> n]

JsString(str) == [kind |-> "string", value |-> str]

\* Set.prototype.has: SameValueZero, which never equates a number and a string
SetHas(elems, x) ==
    \E i \in 1..Len(elems) : elems[i].kind = x.kind /\ elems[i].value = x.value

\* lines 370-383: the type filter (TRUE: the satellite goes on); types is the
\* optional array
TypeAllowed(types, sat) ==
    IF types # <<>> /\ Len(types[1]) > 0
    THEN IF sat.type = 1 \/ sat.type = 2 \/ sat.type = 3
         THEN SetHas(types[1], JsNumber(sat.type))
         ELSE SetHas(types[1], JsString("undefined"))
    ELSE TRUE

\* lines 386-390: the satellite is propagated (a TLE that does not parse
\* throws before that and the satellite is skipped by the catch of line 419)
HeatmapPropagated(types, sat) == TypeAllowed(types, sat) /\ sat.tle # "BAD"

\* lines 370-410: the satellite reaches results.push
HeatmapKeeps(hd, sat) ==
    /\ TypeAllowed(hd.types, sat)
    /\ sat.tle = "OK"
    /\ ~(hd.minLat # <<>> /\ sat.geo.lat < hd.minLat[1])
    /\ ~(hd.maxLat # <<>> /\ sat.geo.lat > hd.maxLat[1])
    /\ ~(hd.minLon # <<>> /\ sat.geo.lon < hd.minLon[1])
    /\ ~(hd.maxLon # <<>> /\ sat.geo.lon > hd.maxLon[1])
    /\ ~(sat.geo.alt < hd.minAlt \/ sat.geo.alt > hd.maxAlt)

\* lines 413-418 and 425-445: the GeoJSON feature of a kept satellite
FeatureOf(sat) ==
    [type |-> "Feature",
     properties |-> [name |-> sat.name, alt |-> sat.geo.alt],
     geometry |-> [type |-> "Point",
                   coordinates |-> <<sat.geo.lon, sat.geo.lat, sat.geo.alt>>]]

heatmap(hd, data) ==
    LET results == SelectSeq(data, LAMBDA sat : HeatmapKeeps(hd, sat))
    IN  [type |-> "FeatureCollection",
         features |-> [i \in 1..Len(results) |-> FeatureOf(results[i])]]

\* orbit.service.ts 340-353 and app.service.ts 14-29: what the try block
\* throws on the answer res of the fetch (<<>>: nothing)
HttpErrorOrNotArray(res) ==
    IF ~res.ok THEN <<HttpException("HTTP error! Status", "BAD_REQUEST")>>
    ELSE IF ~res.isArray
    THEN <<HttpException("Expected an array of satellites", "BAD_REQUEST")>>
    ELSE <<>>

\* orbit.service.ts 447-449 and app.service.ts 76-79: the outer catch
RethrownAsInternal(err) == HttpException(err.message, "INTERNAL_SERVER_ERROR")

\* app.service.ts 38-71: the debris (type 3) that can be propagated
DebrisKeeps(obj) == obj.type = 3 /\ obj.tle = "OK"

DebrisPropagated(obj) == obj.type = 3 /\ obj.tle # "BAD"

getDebris(data) ==
    LET kept == SelectSeq(data, DebrisKeeps)
    IN  [message |-> Len(kept),
         data |-> [i \in 1..Len(kept) |->
                      [name |-> kept[i].name, x |-> kept[i].pos[1],
                       y |-> kept[i].pos[2], z |-> kept[i].pos[3]]]]

\* how many members of seq satisfy Test
CountOf(seq, Test(_)) == Len(SelectSeq(seq, Test))

\* ---- inputs ----

HeatmapSats ==
    {[name |-> "S0", type |-> 0, tle |-> "OK", pos |-> <<7000, 0, 0>>,
      geo |-> [lat |-> 0, lon |-> 0, alt |-> 500]],
     [name |-> "S1", type |-> 1, tle |-> "OK", pos |-> <<0, 7000, 100>>,
      geo |-> [lat |-> 20, lon |-> 10, alt |-> 500]],
     [name |-> "S3", type |-> 3, tle |-> "OK", pos |-> <<0, 0, 7200>>,
      geo |-> [lat |-> 0, lon |-> 0, alt |-> 800]],
     [name |-> "S2", type |-> 2, tle |-> "OK", pos |-> <<42000, 0, 0>>,
      geo |-> [lat |-> 0, lon |-> 0, alt |-> 36000]],
     [name |-> "SX", type |-> 3, tle |-> "BAD", pos |-> <<0, 0, 0>>,
      geo |-> [lat |-> 0, lon |-> 0, alt |-> 0]],
     [name |-> "SN", type |-> 1, tle |-> "NOPOS", pos |-> <<0, 0, 0>>,
      geo |-> [lat |-> 0, lon |-> 0, alt |-> 0]]}

HeatmapFetchResults ==
    {[ok |-> FALSE, isArray |-> FALSE, data |-> <<>>],
     [ok |-> TRUE, isArray |-> FALSE, data |-> <<>>]}
    \cup {[ok |-> TRUE, isArray |-> TRUE, data |-> c] :
              c \in SeqsUpTo(HeatmapSats, MaxCatalog)}

\* types as the validation of HeatmapDto lets it through: absent, or an
\* array of numbers
TypesOptions ==
    {<<>>, << <<>> >>, << <<JsNumber(0), JsNumber(3)>> >>, << <<JsNumber(3)>> >>,
     << <<JsNumber(1), JsNumber(2)>> >>}

HeatmapDtos ==
    [minLat : {<<>>, <<10>>}, maxLat : {<<>>}, minLon : {<<>>}, maxLon : {<<>>},
     minAlt : {0}, maxAlt : {2000}, types : TypesOptions]

catRest == <<tleVars, colVars, riskVars, orbVars, smpVars, schVars, kepVars,
             chkVars, conVars>>

HeatmapInit ==
    /\ catOp = "heatmap"
    /\ heatmapDto \in HeatmapDtos
    /\ catPc = "start"
    /\ catFetched = <<>> /\ catData = <<>> /\ catPropagations = 0
    /\ catResponse = <<>> /\ catError = <<>>
    /\ TleIdle /\ ColIdle /\ RiskIdle /\ OrbIdle
    /\ SmpIdle /\ SchIdle /\ KepIdle /\ ChkIdle /\ ConIdle

GetDebrisInit ==
    /\ catOp = "getDebris"
    /\ heatmapDto = <<>>
    /\ catPc = "start"
    /\ catFetched = <<>> /\ catData = <<>> /\ catPropagations = 0
    /\ catResponse = <<>> /\ catError = <<>>
    /\ TleIdle /\ ColIdle /\ RiskIdle /\ OrbIdle
    /\ SmpIdle /\ SchIdle /\ KepIdle /\ ChkIdle /\ ConIdle

\* orbit.service.ts 337-339: the request is sent
HeatmapFetch ==
    /\ catOp = "heatmap"
    /\ catPc = "start"
    /\ catPc' = "fetching"
    /\ UNCHANGED <<catOp, heatmapDto, catFetched, catData, catPropagations,
                   catResponse, catError, catRest>>

\* orbit.service.ts 340-449: the answer arrives
HeatmapReturns ==
    /\ catOp = "heatmap"
    /\ catPc = "fetching"
    /\ \E res \in HeatmapFetchResults :
          /\ catFetched' = <<[ok |-> res.ok, isArray |-> res.isArray]>>
          /\ IF HttpErrorOrNotArray(res) # <<>>
             THEN /\ catError' = <<RethrownAsInternal(HttpErrorOrNotArray(res)[1])>>
                  /\ catPc' = "failed"
                  /\ UNCHANGED <<catData, catResponse, catPropagations>>
             ELSE /\ catData' = res.data
                  /\ catResponse' = <<heatmap(heatmapDto, res.data)>>
                  /\ catPropagations' =
                         CountOf(res.data,
                                 LAMBDA sat : HeatmapPropagated(heatmapDto.types, sat))
                  /\ catPc' = "done"
                  /\ UNCHANGED catError
    /\ UNCHANGED <<catOp, heatmapDto, catRest>>

\* app.service.ts 11-13: the request is sent
GetDebrisFetch ==
    /\ catOp = "getDebris"
    /\ catPc = "start"
    /\ catPc' = "fetching"
    /\ UNCHANGED <<catOp, heatmapDto, catFetched, catData, catPropagations,
                   catResponse, catError, catRest>>

\* app.service.ts 14-79: the answer arrives
GetDebrisReturns ==
    /\ catOp = "getDebris"
    /\ catPc = "fetching"
    /\ \E res \in HeatmapFetchResults :
          /\ catFetched' = <<[ok |-> res.ok, isArray |-> res.isArray]>>
          /\ IF HttpErrorOrNotArray(res) # <<>>
             THEN /\ catError' = <<RethrownAsInternal(HttpErrorOrNotArray(res)[1])>>
                  /\ catPc' = "failed"
                  /\ UNCHANGED <<catData, catResponse, catPropagations>>
             ELSE /\ catData' = res.data
                  /\ catResponse' = <<getDebris(res.data)>>
                  /\ catPropagations' = CountOf(res.data, DebrisPropagated)
                  /\ catPc' = "done"
                  /\ UNCHANGED catError
    /\ UNCHANGED <<catOp, heatmapDto, catRest>>

\* Specification SpecHeatmap: one heatmap request
SpecHeatmap == HeatmapInit /\ [][HeatmapFetch \/ HeatmapReturns]_vars

\* the type codes of a types array
TypeCodes(types) == {types[i].value : i \in 1..Len(types)}

\* the fetched satellites that every filter but the type filter lets through
PassesOtherFilters(sat) ==
    HeatmapKeeps([heatmapDto EXCEPT !.types = <<>>], sat)

\* C23: when types is a non-empty array, a catalog satellite passes the type
\* filter iff its type code is a member of types (types = [0, 3] lets
\* through the satellites of type 0 and of type 3 and no others): of the
\* fetched satellites that pass the other filters, the returned features are
\* those whose type code is in types.
TypeFilterIsMembership ==
    (catOp = "heatmap" /\ catPc = "done"
         /\ heatmapDto.types # <<>> /\ heatmapDto.types[1] # <<>>) =>
        LET member(sat) == sat.type \in TypeCodes(heatmapDto.types[1])
            expected == SelectSeq(catData,
                                  LAMBDA sat : PassesOtherFilters(sat) /\ member(sat))
        IN  /\ \A i \in 1..Len(catData) :
                   TypeAllowed(heatmapDto.types, catData[i]) <=> member(catData[i])
            /\ catResponse[1].features
                   = [i \in 1..Len(expected) |-> FeatureOf(expected[i])]

\* Specification SpecCatalog: one request to one of the three operations that
\* read the KeepTrack catalog
CatalogInit == Init \/ HeatmapInit \/ GetDebrisInit

CatalogNext ==
    \/ Next
    \/ HeatmapFetch
    \/ HeatmapReturns
    \/ GetDebrisFetch
    \/ GetDebrisReturns

SpecCatalog == CatalogInit /\ [][CatalogNext]_vars

\* the fetch answered with a status that is not OK or a body that is no array
AnswerUnusable(answer) ==
    answer # <<>> /\ ~(answer[1].ok /\ answer[1].isArray)

-----------------------------------------------------------------------------
(* Specification SpecConcurrent: checkCollision requests served together   *)
(*                                                                         *)
(* The handler gives way to other requests at its two awaits only: await   *)
(* fetch (line 141) and await res.json() (line 148).  What lies between    *)
(* two awaits, and what follows the second one up to the return (the       *)
(* loops, writeFileSync, the response), runs without interruption.         *)

\* the number of requests in flight
MaxRequests == 2

\* lines 176-180: the sample times from time on
RECURSIVE TimesFrom(_, _, _)
TimesFrom(time, end, stepMillis) ==
    IF TimesLoopContinues(time, end)
    THEN <<time>> \o TimesFrom(time + stepMillis, end, stepMillis)
    ELSE <<>>

\* lines 206-233: the inner loop from catalog object s on; found is
\* [riskyPoints, totalChecks]
RECURSIVE CompareFrom(_, _, _, _, _, _)
CompareFrom(recs, s, time, userPos, thresholdKm, found) ==
    IF s > Len(recs) THEN found
    ELSE LET pos == Propagate(recs[s].tle, time)
             distSq == eciDistanceSq(userPos, pos[1])
             risky == WithinThreshold(distSq, thresholdKm)
             after ==
                 IF pos = <<>> THEN found
                 ELSE [totalChecks |-> ChecksAfter(found.totalChecks, risky),
                       riskyPoints |->
                           IF risky
                           THEN Append(found.riskyPoints,
                                    [timestamp |-> toIsoString(time),
                                     geodetic |-> [eci |-> userPos, gmst |-> time],
                                     otherSatellite |-> recs[s].name,
                                     distance |-> distSq])
                           ELSE found.riskyPoints]
         IN  CompareFrom(recs, s + 1, time, userPos, thresholdKm, after)

\* lines 197-234: the outer loop from time step k on
RECURSIVE ScanFrom(_, _, _, _, _, _)
ScanFrom(tle, recs, sampleTimes, k, thresholdKm, found) ==
    IF k > Len(sampleTimes) THEN found
    ELSE LET userPos == Propagate(tle, sampleTimes[k])
             after ==
                 IF userPos = <<>> THEN found
                 ELSE CompareFrom(recs, 1, sampleTimes[k], userPos[1],
                                  thresholdKm, found)
         IN  ScanFrom(tle, recs, sampleTimes, k + 1, thresholdKm, after)

\* lines 160-283 without the write: the catalog is filtered, the times are
\* built, the loops run, the response is made
checkCollisionBody(d, data) ==
    LET recs == SelectSeq(data, LAMBDA sat : TleParses(sat.tle))
        limit == MaxEndOf(d.startTime)
        beyond == BeyondValidity(d.endTime, limit)
        end == IF beyond THEN limit ELSE d.endTime
        sampleTimes == TimesFrom(d.startTime, end, StepMillisOf(d))
        found == ScanFrom(d.tle, recs, sampleTimes, 1, ThresholdKmOf(d),
                          [totalChecks |-> 0, riskyPoints |-> <<>>])
    IN  [riskLevel |-> RiskLevelOf(Len(found.riskyPoints), found.totalChecks),
         collisionProbability |->
             ReportedProbability(Len(found.riskyPoints), found.totalChecks),
         validUntil |-> ValidUntilOf(limit, end),
         warnings |-> IF beyond THEN <<ClampNotice>> ELSE <<>>,
         riskyPoints |-> found.riskyPoints]

\* line 262: fs.writeFileSync replaces the contents of the file
AppendedFile(old, content) ==
    IF old = <<>> THEN <<content>>
    ELSE <<[header |-> content.header, rows |-> old[1].rows \o content.rows]>>

WrittenFile(old, content) == <<content>>

\* ---- inputs ----

ConcurrentDtos ==
    {[tle |-> "U", startTime |-> 0, endTime |-> 20 * MsPerMinute,
      intervalMinutes |-> <<>>, thresholdKm |-> <<>>],
     [tle |-> "UD", startTime |-> 0, endTime |-> 20 * MsPerMinute,
      intervalMinutes |-> <<>>, thresholdKm |-> <<5>>],
     [tle |-> "U", startTime |-> 60000, endTime |-> 60000,
      intervalMinutes |-> <<>>, thresholdKm |-> <<>>],
     [tle |-> "BAD", startTime |-> 0, endTime |-> 20 * MsPerMinute,
      intervalMinutes |-> <<>>, thresholdKm |-> <<>>]}

\* the bodies res.json() can give
CatalogBodies ==
    {[ok |-> TRUE, isArray |-> FALSE, data |-> <<>>]}
    \cup {[ok |-> TRUE, isArray |-> TRUE, data |-> c] :
              c \in {<<>>,
                     <<[name |-> "A", tle |-> "A"]>>,
                     <<[name |-> "A", tle |-> "A"], [name |-> "B", tle |-> "B"]>>,
                     <<[name |-> "X", tle |-> "BAD"], [name |-> "B", tle |-> "B"]>>}}

RequestIds == 1..MaxRequests

ConcurrentInit ==
    /\ requests \in [RequestIds ->
                        {[dto |-> d, pc |-> "start", keepTrackSats |-> <<>>,
                          response |-> <<>>, error |-> <<>>] :
                             d \in ConcurrentDtos}]
    /\ sharedCsv = <<>>
    /\ lastWriter = 0
    /\ TleIdle /\ ColIdle /\ RiskIdle /\ OrbIdle
    /\ SmpIdle /\ SchIdle /\ KepIdle /\ ChkIdle /\ CatIdle

conRest == <<tleVars, colVars, riskVars, orbVars, smpVars, schVars, kepVars,
             chkVars, catVars>>

Failed(req, err) == [req EXCEPT !.pc = "rejected", !.error = <<err>>]

\* lines 102-141 of request id: validation, clamp, the fetch is issued
RequestValidated(id) ==
    /\ requests[id].pc = "start"
    /\ LET req == requests[id]
       IN  requests' =
               [requests EXCEPT ![id] =
                   IF ~TleParses(req.dto.tle)
                   THEN Failed(req, HttpException("Invalid TLE data provided.",
                                                  "BAD_REQUEST"))
                   ELSE IF TimeWindowInvalid(req.dto.startTime, req.dto.endTime)
                   THEN Failed(req, HttpException(
                                        "endTime must be strictly after startTime",
                                        "BAD_REQUEST"))
                   ELSE [req EXCEPT !.pc = "fetching"]]
    /\ UNCHANGED <<sharedCsv, lastWriter, conRest>>

\* lines 141-148 of request id: the fetch answers; res.json() is awaited
FetchAnswered(id) ==
    /\ requests[id].pc = "fetching"
    /\ \E ok \in BOOLEAN :
          LET res == [ok |-> ok, isArray |-> FALSE, data |-> <<>>]
          IN  requests' =
                  [requests EXCEPT ![id] =
                      IF ~ok THEN Failed(@, Rewrapped(CatalogFailure(res)[1]))
                      ELSE [@ EXCEPT !.pc = "parsing"]]
    /\ UNCHANGED <<sharedCsv, lastWriter, conRest>>

\* lines 148-283 of request id: the body arrives; the catalog is scanned,
\* the file written (a failed write is only logged and leaves the file as
\* it was), the response returned
BodyParsed(id) ==
    /\ requests[id].pc = "parsing"
    /\ \E res \in CatalogBodies, writeOk \in BOOLEAN :
          IF CatalogFailure(res) # <<>>
          THEN /\ requests' = [requests EXCEPT
                                  ![id] = Failed(@, Rewrapped(CatalogFailure(res)[1]))]
               /\ UNCHANGED <<sharedCsv, lastWriter>>
          ELSE LET report == checkCollisionBody(requests[id].dto, res.data)
               IN  /\ sharedCsv' = IF writeOk
                                   THEN WrittenFile(sharedCsv, CsvOf(report.riskyPoints))
                                   ELSE sharedCsv
                   /\ lastWriter' = IF writeOk THEN id ELSE lastWriter
                   /\ requests' = [requests EXCEPT
                                      ![id] = [@ EXCEPT !.pc = "done",
                                                        !.keepTrackSats = res.data,
                                                        !.response = <<report>>]]
    /\ UNCHANGED conRest

ConcurrentNext ==
    \E id \in RequestIds :
        \/ RequestValidated(id)
        \/ FetchAnswered(id)
        \/ BodyParsed(id)

SpecConcurrent == ConcurrentInit /\ [][ConcurrentNext]_vars

\* ---- claims on concurrent requests ----

\* what a request with the arguments d gets alone on the catalog data: the
\* pairs (time step k, parsed catalog object s) in loop order, those of them
\* at which both objects have a position, and those within the threshold
AloneRecs(data) == SelectSeq(data, LAMBDA sat : TleParses(sat.tle))

AloneTimes(d) ==
    LET limit == Min(d.endTime, d.startTime + TLE_VALID_DAYS * MsPerDay)
        n == ((limit - d.startTime) \div StepMillisOf(d)) + 1
    IN  [k \in 1..n |-> d.startTime + (k - 1) * StepMillisOf(d)]

AlonePairs(d, data) ==
    LET recs == AloneRecs(data)
        sampleTimes == AloneTimes(d)
        all == [i \in 1..(Len(sampleTimes) * Len(recs)) |->
                   [time |-> sampleTimes[((i - 1) \div Len(recs)) + 1],
                    sat |-> recs[((i - 1) % Len(recs)) + 1]]]
    IN  SelectSeq(all, LAMBDA pair : /\ Propagate(d.tle, pair.time) # <<>>
                                     /\ Propagate(pair.sat.tle, pair.time) # <<>>)

AlonePairDistanceSq(d, pair) ==
    eciDistanceSq(Propagate(d.tle, pair.time)[1],
                  Propagate(pair.sat.tle, pair.time)[1])

AloneRisky(d, data) ==
    SelectSeq(AlonePairs(d, data),
              LAMBDA pair : /\ ThresholdKmOf(d) >= 0
                            /\ AlonePairDistanceSq(d, pair)
                                   <= ThresholdKmOf(d) * ThresholdKmOf(d))

AloneRows(d, data) ==
    LET risky == AloneRisky(d, data)
    IN  [i \in 1..Len(risky) |->
            <<toIsoString(risky[i].time),
              [eci |-> Propagate(d.tle, risky[i].time)[1], gmst |-> risky[i].time],
              risky[i].sat.name>>]

AnsweredAsAlone(req) ==
    LET risky == AloneRisky(req.dto, req.keepTrackSats)
        checks == Len(AlonePairs(req.dto, req.keepTrackSats))
        answer == req.response[1]
    IN  /\ req.error = <<>>
        /\ Len(answer.riskyPoints) = Len(risky)
        /\ \A i \in 1..Len(risky) :
               /\ answer.riskyPoints[i].timestamp = toIsoString(risky[i].time)
               /\ answer.riskyPoints[i].otherSatellite = risky[i].sat.name
               /\ answer.riskyPoints[i].distance
                      = AlonePairDistanceSq(req.dto, risky[i])
        /\ answer.collisionProbability = ReportedProbability(Len(risky), checks)
        /\ answer.riskLevel = RiskLevelOf(Len(risky), checks)
        /\ answer.validUntil
               = toIsoString(req.dto.startTime + TLE_VALID_DAYS * MsPerDay)
        /\ answer.warnings = <<>>

=============================================================================
